---- MODULE Spec2Model ----
(***************************************************************************)
(* Call-session orchestration of the Halcyon AI receptionist:              *)
(*   - IntakeSession   (src/src/services/intakeSession.ts)                 *)
(*   - ScoringEngine   (src/src/services/intakeSession.ts, second part)    *)
(*   - OpenAIRealtimeClient (src/src/services/openaiRealtime.ts)           *)
(*   - mediaStreamHandler   (src/unnamed/part_002)                         *)
(*                                                                         *)
(* Optional JavaScript values are modelled as sets of at most one element: *)
(* {} is `undefined`, {v} is the value v.                                  *)
(***************************************************************************)
EXTENDS Integers, Sequences, FiniteSets, TLC

VARIABLES
  config,        \* the process configuration read by the session (constant per run)
  callerInfo,    \* IntakeSession.callerInfo
  data,          \* IntakeSession.data (the IntakeRecord)
  flags,         \* IntakeSession.flags
  outcome,       \* IntakeSession.outcome
  scoring,       \* IntakeSession.scoring (Undef is null)
  log,           \* log entries written by the most recent end_call handling
  ret,           \* value returned by the most recent handleFunctionCall
  smsCalls,      \* destinations handed to smsService.sendConfirmation, in order
  smsInFlight,   \* number of sendConfirmation promises not yet settled
  nCalls,        \* number of function calls handled so far
  fin,           \* the finalize() invocations of the session, in start order
  effects,       \* counters of the collaborator calls made by finalize()
  bridge,        \* mediaStreamHandler closure state
  client         \* OpenAIRealtimeClient state

vars == <<config, callerInfo, data, flags, outcome, scoring, log, ret,
          smsCalls, smsInFlight, nCalls, fin, effects, bridge, client>>

sessionVars == <<data, flags, outcome, scoring>>

----------------------------------------------------------------------------
(* Optional values *)

Undef == {}
Def(v) == {v}
IsDef(x) == x # {}
Val(x) == CHOOSE v \in x : TRUE

\* JavaScript truthiness of an optional string / boolean / number
TruthyStr(x) == IsDef(x) /\ Val(x) # ""
TruthyBool(x) == IsDef(x) /\ Val(x) = TRUE
TruthyNum(x) == IsDef(x) /\ Val(x) # 0

\* (x as string) || y
OrElse(x, y) == IF TruthyStr(x) THEN x ELSE y

Min(a, b) == IF a < b THEN a ELSE b
Max(a, b) == IF a > b THEN a ELSE b

----------------------------------------------------------------------------
(* Bounds of the model *)

MaxCalls == 3        \* function calls handled in one call session
MaxStops == 2        \* carrier 'stop' events delivered on one connection
MaxEvents == 6       \* backend events delivered to one client
MaxMedia == 2        \* carrier 'media' messages handled on one connection
MaxCaught == 2       \* malformed carrier messages on one connection
MaxSegments == 3     \* transcript segments the backend starts on one connection

----------------------------------------------------------------------------
(* The clock.  Dates are calendar dates [y, m, d]; `today` does not change  *)
(* during a call.                                                          *)

Today == [y |-> 2026, m |-> 6, d |-> 15]
TodayDay == 20619    \* day number of Today (days since 1970-01-01)

\* intakeSession.ts 255-262: age from date of birth
AgeFromDob(dob, today) ==
  LET age == today.y - dob.y
      monthDiff == today.m - dob.m
  IN IF monthDiff < 0 \/ (monthDiff = 0 /\ today.d < dob.d)
     THEN age - 1 ELSE age

----------------------------------------------------------------------------
(* IntakeSession: initial state (field initialisers and constructor) *)

InitData(ci) ==
  [ demographics |->
      [ firstName |-> Undef, lastName |-> Undef, dateOfBirth |-> Undef,
        age |-> Undef, phone |-> Def(ci.callerPhone), email |-> Undef,
        city |-> Def(ci.callerCity), state |-> Def(ci.callerState) ],
    education |-> [ level |-> Undef, details |-> Undef ],
    medical |->
      [ conditions |-> Def(<<>>), severity |-> Undef, durationMonths |-> Undef,
        treatments |-> Def(<<>>), hospitalizations |-> Undef,
        medications |-> Def(<<>>), sideEffects |-> Def(<<>>) ],
    functionalLimitations |->
      [ sittingMinutes |-> Undef, standingMinutes |-> Undef,
        walkingBlocks |-> Undef, liftingPounds |-> Undef,
        concentrationIssues |-> Undef, memoryIssues |-> Undef,
        socialDifficulties |-> Undef, expectedAbsences |-> Undef,
        needsToLieDown |-> Undef, assistiveDevices |-> Def(<<>>) ],
    workHistory |->
      [ jobs |-> Def(<<>>), heaviestLifting |-> Undef, totalWorkYears |-> Undef,
        lastWorkDate |-> Undef, currentlyWorking |-> Undef ],
    application |->
      [ hasApplied |-> Undef, status |-> Undef, denialDate |-> Undef,
        hearingDate |-> Undef ],
    smsConsent |->
      [ consentGiven |-> Def(FALSE), consentTimestamp |-> Undef,
        phoneNumber |-> Undef ],
    notes |-> "",
    transcript |-> <<>> ]

InitFlags ==
  [ urgent |-> FALSE, urgentReason |-> Undef, crisisMentioned |-> FALSE,
    transferRequested |-> FALSE ]

InitOutcome == "in_progress"

----------------------------------------------------------------------------
(* Strings: String.prototype.includes and toLowerCase *)

\* `v` evaluated once and handed to F
Let(v, F(_)) == CHOOSE r \in {F(x) : x \in {v}} : TRUE

Includes(s, k) ==
  \E t \in {s} : \E i \in 1..(Len(t) - Len(k) + 1) : SubSeq(t, i, i + Len(k) - 1) = k

\* the lower-case form of each upper-case letter
UpperToLower ==
  [ A |-> "a", B |-> "b", C |-> "c", D |-> "d", E |-> "e", F |-> "f", G |-> "g",
    H |-> "h", I |-> "i", J |-> "j", K |-> "k", L |-> "l", M |-> "m", N |-> "n",
    O |-> "o", P |-> "p", Q |-> "q", R |-> "r", S |-> "s", T |-> "t", U |-> "u",
    V |-> "v", W |-> "w", X |-> "x", Y |-> "y", Z |-> "z" ]

LowerChar(c) == IF c \in DOMAIN UpperToLower THEN UpperToLower[c] ELSE c

\* the lower-case form of s from its i-th character on
RECURSIVE ToLowerFrom(_, _)
ToLowerFrom(s, i) ==
  IF i > Len(s) THEN ""
  ELSE Let(i + 1, LAMBDA j : LowerChar(SubSeq(s, i, i)) \o ToLowerFrom(s, j))

ToLowerCase(s) == Let(s, LAMBDA t : ToLowerFrom(t, 1))

\* Array.prototype.some over a sequence
Some(seq, P(_)) == \E i \in 1..Len(seq) : P(seq[i])

----------------------------------------------------------------------------
(* Log entries and handler results *)

Info(ev) == [level |-> "info", event |-> ev, reason |-> ""]
Warn(ev) == [level |-> "warn", event |-> ev, reason |-> ""]
Err(ev) == [level |-> "error", event |-> ev, reason |-> ""]
InfoReason(ev, r) == [level |-> "info", event |-> ev, reason |-> r]

\* The result of one recording operation: the new session state, what it
\* returned (or that it threw), and what it logged.
\* `sms` is the destination handed to smsService.sendConfirmation, if any.
Result(d, f, o, sc, r, l) ==
  [data |-> d, flags |-> f, outcome |-> o, scoring |-> sc, ret |-> r,
   threw |-> FALSE, log |-> l, sms |-> Undef]
Threw(d, f, o, sc, l) ==
  [data |-> d, flags |-> f, outcome |-> o, scoring |-> sc,
   ret |-> [threw |-> TRUE], threw |-> TRUE, log |-> l, sms |-> Undef]

----------------------------------------------------------------------------
(* IntakeSession recording operations (intakeSession.ts 241-527) *)

\* new Date('YYYY-MM-DD') is midnight UTC of that day; getFullYear, getMonth
\* and getDate read it in the server's time zone, which is the same calendar
\* day east of Greenwich and the previous calendar day west of it.
IsLeap(y) == (y % 4 = 0 /\ y % 100 # 0) \/ y % 400 = 0
DaysInMonth(y, m) ==
  IF m = 2 THEN (IF IsLeap(y) THEN 29 ELSE 28)
  ELSE IF m \in {4, 6, 9, 11} THEN 30 ELSE 31
PrevDay(dt) ==
  IF dt.d > 1 THEN [dt EXCEPT !.d = dt.d - 1]
  ELSE IF dt.m > 1 THEN [y |-> dt.y, m |-> dt.m - 1, d |-> DaysInMonth(dt.y, dt.m - 1)]
  ELSE [y |-> dt.y - 1, m |-> 12, d |-> 31]
LocalDate(dateStr) == IF config.tzWest THEN PrevDay(dateStr) ELSE dateStr

recordDemographics(d, f, o, sc, args) ==
  LET dem0 == [ d.demographics EXCEPT
                  !.firstName = args.first_name,
                  !.lastName = args.last_name,
                  !.dateOfBirth = args.date_of_birth,
                  !.phone = OrElse(args.phone, d.demographics.phone),
                  !.email = args.email,
                  !.city = OrElse(args.city, d.demographics.city),
                  !.state = OrElse(args.state, d.demographics.state) ]
      dem1 == IF IsDef(dem0.dateOfBirth)
              THEN [dem0 EXCEPT !.age =
                      Def(AgeFromDob(LocalDate(Val(dem0.dateOfBirth)), Today))]
              ELSE dem0
      age == IF TruthyNum(dem1.age) THEN Val(dem1.age) ELSE 0
      r == IF age >= 55
           THEN [recorded |-> TRUE, age |-> age, guidance |-> "advanced_age"]
           ELSE IF age >= 50
           THEN [recorded |-> TRUE, age |-> age,
                 guidance |-> "closely_approaching_advanced_age"]
           ELSE [recorded |-> TRUE, age |-> age]
  IN Result([d EXCEPT !.demographics = dem1], f, o, sc, r,
            <<>>)

recordEducation(d, f, o, sc, args) ==
  LET edu == [level |-> args.education_level, details |-> args.details]
      age == IF TruthyNum(d.demographics.age) THEN Val(d.demographics.age) ELSE 0
      r == IF (edu.level = Def("limited") \/ edu.level = Def("marginal"))
              /\ age >= 50
           THEN [recorded |-> TRUE, guidance |-> "limited_education_50plus"]
           ELSE [recorded |-> TRUE]
  IN Result([d EXCEPT !.education = edu], f, o, sc, r,
            <<>>)

highApproval ==
  <<"cancer", "multiple sclerosis", "ms", "als", "copd", "heart failure", "chf">>

\* recordMedicalConditions replacing the medical slice by a new object
recordMedicalConditions_ReplacesMedical(d, f, o, sc, args) ==
  LET med == [ conditions |-> args.conditions,
               severity |-> args.severity,
               durationMonths |-> args.duration_months,
               treatments |-> IF IsDef(args.treatments)
                              THEN args.treatments ELSE Def(<<>>),
               hospitalizations |-> args.hospitalizations,
               medications |-> Def(<<>>), sideEffects |-> Def(<<>>) ]
      d1 == [d EXCEPT !.medical = med]
  IN IF ~IsDef(med.conditions)
     THEN Threw(d1, f, o, sc, <<>>)
     ELSE Result(d1, f, o, sc, [recorded |-> TRUE], <<>>)

recordMedicalConditions(d, f, o, sc, args) ==
  LET med == [ d.medical EXCEPT
                 !.conditions = args.conditions,
                 !.severity = args.severity,
                 !.durationMonths = args.duration_months,
                 !.treatments = IF IsDef(args.treatments)
                                THEN args.treatments ELSE Def(<<>>),
                 !.hospitalizations = args.hospitalizations ]
      d1 == [d EXCEPT !.medical = med]
  IN IF ~IsDef(med.conditions)
     THEN \* this.data.medical.conditions.length on undefined: TypeError
          Threw(d1, f, o, sc, <<>>)
     ELSE LET conds == Val(med.conditions)
              hasHighApproval ==
                Some(conds, LAMBDA c :
                  \E lower \in {ToLowerCase(c)} :
                    Some(highApproval, LAMBDA h : Includes(lower, h)))
              r == IF hasHighApproval
                   THEN [recorded |-> TRUE, guidance |-> "high_approval"]
                   ELSE IF Len(conds) >= 3
                   THEN [recorded |-> TRUE, guidance |-> "multiple_conditions"]
                   ELSE [recorded |-> TRUE]
          IN Result(d1, f, o, sc, r, <<>>)

opioids ==
  <<"oxycodone", "morphine", "fentanyl", "hydrocodone", "percocet", "vicodin">>

recordMedications(d, f, o, sc, args) ==
  LET med == [ d.medical EXCEPT
                 !.medications = args.medications,
                 !.sideEffects = IF IsDef(args.side_effects)
                                 THEN args.side_effects ELSE Def(<<>>) ]
      d1 == [d EXCEPT !.medical = med]
  IN IF ~IsDef(med.medications)
     THEN \* this.data.medical.medications.length on undefined: TypeError
          Threw(d1, f, o, sc, <<>>)
     ELSE LET meds == Val(med.medications)
              hasOpioids ==
                Some(meds, LAMBDA m :
                  \E lower \in {ToLowerCase(m)} :
                    Some(opioids, LAMBDA op : Includes(lower, op)))
              r == IF hasOpioids
                   THEN [recorded |-> TRUE, guidance |-> "opioids"]
                   ELSE IF Len(meds) >= 5
                   THEN [recorded |-> TRUE, guidance |-> "polypharmacy"]
                   ELSE [recorded |-> TRUE]
          IN Result(d1, f, o, sc, r, <<>>)

recordFunctionalLimitations(d, f, o, sc, args) ==
  LET fl == [ sittingMinutes |-> args.sitting_minutes,
              standingMinutes |-> args.standing_minutes,
              walkingBlocks |-> args.walking_blocks,
              liftingPounds |-> args.lifting_pounds,
              concentrationIssues |-> args.concentration_issues,
              memoryIssues |-> args.memory_issues,
              socialDifficulties |-> args.social_difficulties,
              expectedAbsences |-> args.expected_absences,
              needsToLieDown |-> args.needs_to_lie_down,
              assistiveDevices |-> IF IsDef(args.assistive_devices)
                                   THEN args.assistive_devices ELSE Def(<<>>) ]
      criticalLimitations ==
        (IF TruthyNum(fl.liftingPounds) /\ Val(fl.liftingPounds) <= 10
         THEN <<"sedentary lifting capacity">> ELSE <<>>)
        \o (IF TruthyNum(fl.sittingMinutes) /\ Val(fl.sittingMinutes) <= 30
            THEN <<"cannot sit for extended periods">> ELSE <<>>)
        \o (IF TruthyNum(fl.expectedAbsences) /\ Val(fl.expectedAbsences) >= 2
            THEN <<"would miss 2+ days/month">> ELSE <<>>)
      r == IF Len(criticalLimitations) > 0
           THEN [recorded |-> TRUE, guidance |-> criticalLimitations]
           ELSE [recorded |-> TRUE]
  IN Result([d EXCEPT !.functionalLimitations = fl], f, o, sc, r,
            <<>>)

unskilledKeywordsGuidance ==
  <<"warehouse", "factory", "labor", "construction", "cleaning", "cashier">>

recordWorkHistory(d, f, o, sc, args) ==
  LET wh == [ jobs |-> IF IsDef(args.jobs) THEN args.jobs ELSE Def(<<>>),
              heaviestLifting |-> args.heaviest_lifting,
              totalWorkYears |-> args.total_work_years,
              lastWorkDate |-> args.last_work_date,
              currentlyWorking |-> args.currently_working ]
      hasUnskilled ==
        Some(Val(wh.jobs), LAMBDA j :
          \E lower \in {ToLowerCase(j.title)} :
            Some(unskilledKeywordsGuidance, LAMBDA k : Includes(lower, k)))
      r == IF hasUnskilled /\ (wh.heaviestLifting = Def("heavy")
                               \/ wh.heaviestLifting = Def("very_heavy"))
           THEN [recorded |-> TRUE, guidance |-> "unskilled_heavy"]
           ELSE [recorded |-> TRUE]
  IN Result([d EXCEPT !.workHistory = wh], f, o, sc, r,
            <<>>)

\* Dates of the application slice are day numbers (days since 1970-01-01):
\* floor((today.getTime() - denialDate.getTime()) / 86400000)
DaysSince(day) == TodayDay - day

\* recordApplicationStatus comparing with `> 45` instead of `>= 45`
recordApplicationStatus_After45(d, f, o, sc, args) ==
  LET app == [ hasApplied |-> args.has_applied, status |-> args.status,
               denialDate |-> args.denial_date,
               hearingDate |-> args.hearing_date ]
      d1 == [d EXCEPT !.application = app]
      l == <<>>
  IN IF IsDef(app.denialDate) /\ DaysSince(Val(app.denialDate)) > 45
     THEN Result(d1, [f EXCEPT !.urgent = TRUE,
                               !.urgentReason = Def("Appeal deadline approaching")],
                 o, sc, [recorded |-> TRUE, warning |-> "appeal_deadline"], l)
     ELSE IF app.status = Def("hearing_scheduled")
     THEN Result(d1, [f EXCEPT !.urgent = TRUE,
                               !.urgentReason = Def("Hearing scheduled")],
                 o, sc, [recorded |-> TRUE, warning |-> "hearing_scheduled"], l)
     ELSE Result(d1, f, o, sc, [recorded |-> TRUE], l)

recordApplicationStatus(d, f, o, sc, args) ==
  LET app == [ hasApplied |-> args.has_applied, status |-> args.status,
               denialDate |-> args.denial_date,
               hearingDate |-> args.hearing_date ]
      d1 == [d EXCEPT !.application = app]
      l == <<>>
  IN IF IsDef(app.denialDate) /\ DaysSince(Val(app.denialDate)) >= 45
     THEN Result(d1, [f EXCEPT !.urgent = TRUE,
                               !.urgentReason = Def("Appeal deadline approaching")],
                 o, sc, [recorded |-> TRUE, warning |-> "appeal_deadline"], l)
     ELSE IF app.status = Def("hearing_scheduled")
     THEN Result(d1, [f EXCEPT !.urgent = TRUE,
                               !.urgentReason = Def("Hearing scheduled")],
                 o, sc, [recorded |-> TRUE, warning |-> "hearing_scheduled"], l)
     ELSE Result(d1, f, o, sc, [recorded |-> TRUE], l)

recordSmsConsent(d, f, o, sc, args) ==
  LET consentGiven == args.consent_given
      phoneNumber == OrElse(args.phone_number, d.demographics.phone)
      c == [ consentGiven |-> consentGiven, consentTimestamp |-> Def(TodayDay),
             phoneNumber |-> phoneNumber ]
      r == IF TruthyBool(consentGiven)
           THEN [recorded |-> TRUE, consent |-> "granted"]
           ELSE [recorded |-> TRUE, consent |-> "declined"]
  IN Result([d EXCEPT !.smsConsent = c], f, o, sc, r,
            <<>>)

flagUrgent(d, f, o, sc, args) ==
  LET f1 == [ f EXCEPT !.urgent = TRUE,
                       !.urgentReason = args.reason,
                       !.crisisMentioned = TruthyBool(args.crisis_mentioned) ]
      r == IF f1.crisisMentioned
           THEN [flagged |-> TRUE, instruction |-> "988 crisis line"]
           ELSE [flagged |-> TRUE]
  IN Result(d, f1, o, sc, r, <<>>)

requestHumanTransfer(d, f, o, sc, args) ==
  Result(d, [f EXCEPT !.transferRequested = TRUE], o, sc,
         [transfer_initiated |-> TRUE], <<>>)

\* a default branch that also drops the cached scoring
unknownFunction_DropsScoring(d, f, o, sc, name) ==
  Result(d, f, o, Undef, [error |-> "Unknown function: " \o name], <<>>)

\* the default branch of the dispatch switch (intakeSession.ts 235-237)
unknownFunction(d, f, o, sc, name) ==
  Result(d, f, o, sc, [error |-> "Unknown function: " \o name], <<>>)

----------------------------------------------------------------------------
(* ScoringEngine (intakeSession.ts 850-1300)                               *)
(* Scores are kept in units of 1/100000 point so that every product of the *)
(* code's decimal factors is an integer; the final rounding is Math.round. *)

Unit == 100000

\* config.scoring and config.callbacks defaults (src/unnamed/part_001)
ScoreHighlyRecommended == 70
ScoreRecommended == 45
ScoreConsiderCaution == 25
ScoreWeakCase == 10

CONDITION_SCORES ==
  << [key |-> "cancer", baseScore |-> 30, approvalRate |-> 85, category |-> "cancer"],
     [key |-> "multiple sclerosis", baseScore |-> 25, approvalRate |-> 80, category |-> "neurological"],
     [key |-> "ms", baseScore |-> 25, approvalRate |-> 80, category |-> "neurological"],
     [key |-> "als", baseScore |-> 35, approvalRate |-> 95, category |-> "neurological"],
     [key |-> "lou gehrig", baseScore |-> 35, approvalRate |-> 95, category |-> "neurological"],
     [key |-> "parkinson", baseScore |-> 28, approvalRate |-> 82, category |-> "neurological"],
     [key |-> "heart failure", baseScore |-> 25, approvalRate |-> 78, category |-> "cardiovascular"],
     [key |-> "chf", baseScore |-> 25, approvalRate |-> 78, category |-> "cardiovascular"],
     [key |-> "congestive heart failure", baseScore |-> 25, approvalRate |-> 78, category |-> "cardiovascular"],
     [key |-> "copd", baseScore |-> 22, approvalRate |-> 85, category |-> "respiratory"],
     [key |-> "emphysema", baseScore |-> 20, approvalRate |-> 80, category |-> "respiratory"],
     [key |-> "dialysis", baseScore |-> 28, approvalRate |-> 88, category |-> "renal"],
     [key |-> "kidney failure", baseScore |-> 25, approvalRate |-> 85, category |-> "renal"],
     [key |-> "back pain", baseScore |-> 20, approvalRate |-> 63, category |-> "musculoskeletal"],
     [key |-> "chronic back pain", baseScore |-> 20, approvalRate |-> 63, category |-> "musculoskeletal"],
     [key |-> "herniated disc", baseScore |-> 22, approvalRate |-> 65, category |-> "musculoskeletal"],
     [key |-> "degenerative disc", baseScore |-> 20, approvalRate |-> 62, category |-> "musculoskeletal"],
     [key |-> "spinal stenosis", baseScore |-> 22, approvalRate |-> 68, category |-> "musculoskeletal"],
     [key |-> "arthritis", baseScore |-> 18, approvalRate |-> 55, category |-> "musculoskeletal"],
     [key |-> "osteoarthritis", baseScore |-> 18, approvalRate |-> 55, category |-> "musculoskeletal"],
     [key |-> "rheumatoid arthritis", baseScore |-> 22, approvalRate |-> 70, category |-> "musculoskeletal"],
     [key |-> "fibromyalgia", baseScore |-> 15, approvalRate |-> 45, category |-> "musculoskeletal"],
     [key |-> "lupus", baseScore |-> 22, approvalRate |-> 72, category |-> "immune"],
     [key |-> "depression", baseScore |-> 18, approvalRate |-> 59, category |-> "mental"],
     [key |-> "major depression", baseScore |-> 20, approvalRate |-> 62, category |-> "mental"],
     [key |-> "major depressive disorder", baseScore |-> 20, approvalRate |-> 62, category |-> "mental"],
     [key |-> "bipolar", baseScore |-> 22, approvalRate |-> 68, category |-> "mental"],
     [key |-> "bipolar disorder", baseScore |-> 22, approvalRate |-> 68, category |-> "mental"],
     [key |-> "anxiety", baseScore |-> 16, approvalRate |-> 52, category |-> "mental"],
     [key |-> "generalized anxiety", baseScore |-> 16, approvalRate |-> 52, category |-> "mental"],
     [key |-> "ptsd", baseScore |-> 20, approvalRate |-> 60, category |-> "mental"],
     [key |-> "post traumatic stress", baseScore |-> 20, approvalRate |-> 60, category |-> "mental"],
     [key |-> "schizophrenia", baseScore |-> 28, approvalRate |-> 78, category |-> "mental"],
     [key |-> "panic disorder", baseScore |-> 18, approvalRate |-> 55, category |-> "mental"],
     [key |-> "ocd", baseScore |-> 18, approvalRate |-> 55, category |-> "mental"],
     [key |-> "autism", baseScore |-> 22, approvalRate |-> 65, category |-> "mental"],
     [key |-> "neuropathy", baseScore |-> 18, approvalRate |-> 58, category |-> "neurological"],
     [key |-> "peripheral neuropathy", baseScore |-> 18, approvalRate |-> 58, category |-> "neurological"],
     [key |-> "epilepsy", baseScore |-> 22, approvalRate |-> 65, category |-> "neurological"],
     [key |-> "seizures", baseScore |-> 22, approvalRate |-> 65, category |-> "neurological"],
     [key |-> "stroke", baseScore |-> 20, approvalRate |-> 60, category |-> "neurological"],
     [key |-> "migraine", baseScore |-> 14, approvalRate |-> 40, category |-> "neurological"],
     [key |-> "traumatic brain injury", baseScore |-> 22, approvalRate |-> 65, category |-> "neurological"],
     [key |-> "tbi", baseScore |-> 22, approvalRate |-> 65, category |-> "neurological"],
     [key |-> "pots", baseScore |-> 16, approvalRate |-> 45, category |-> "cardiovascular"],
     [key |-> "dysautonomia", baseScore |-> 16, approvalRate |-> 45, category |-> "cardiovascular"],
     [key |-> "ehlers danlos", baseScore |-> 16, approvalRate |-> 48, category |-> "musculoskeletal"],
     [key |-> "eds", baseScore |-> 16, approvalRate |-> 48, category |-> "musculoskeletal"],
     [key |-> "crps", baseScore |-> 20, approvalRate |-> 55, category |-> "neurological"],
     [key |-> "complex regional pain", baseScore |-> 20, approvalRate |-> 55, category |-> "neurological"],
     [key |-> "chiari", baseScore |-> 18, approvalRate |-> 50, category |-> "neurological"],
     [key |-> "diabetes", baseScore |-> 12, approvalRate |-> 40, category |-> "endocrine"],
     [key |-> "sleep apnea", baseScore |-> 10, approvalRate |-> 35, category |-> "respiratory"],
     [key |-> "chronic fatigue", baseScore |-> 12, approvalRate |-> 38, category |-> "immune"],
     [key |-> "hypertension", baseScore |-> 8, approvalRate |-> 25, category |-> "cardiovascular"] >>

HIGH_SEVERITY_MEDS ==
  <<"oxycodone", "morphine", "fentanyl", "hydrocodone", "percocet", "vicodin",
    "norco", "dilaudid", "seroquel", "zyprexa", "risperdal", "abilify",
    "clozapine", "haldol", "lithium", "depakote", "lamictal", "humira",
    "enbrel", "remicade", "methotrexate">>

MODERATE_SEVERITY_MEDS ==
  <<"gabapentin", "lyrica", "cymbalta", "tramadol", "zoloft", "lexapro",
    "prozac", "effexor", "wellbutrin", "klonopin", "xanax", "ativan", "valium">>

unskilledKeywords ==
  <<"warehouse", "factory", "labor", "construction", "cleaning", "cashier",
    "assembly">>

\* getSeverityMultiplier, in hundredths
getSeverityMultiplier(severity) ==
  IF severity = Def("disabling") THEN 120
  ELSE IF severity = Def("severe") THEN 100
  ELSE IF severity = Def("moderate") THEN 75
  ELSE IF severity = Def("mild") THEN 60
  ELSE 80

\* getRecommendation without its last branch: a score under the weak-case
\* threshold is reported as a weak case
getRecommendation_NoLowestTier(score) ==
  IF score >= ScoreHighlyRecommended
  THEN [recommendation |-> "highly_recommended", viabilityRating |-> "Very High",
        approvalLikelihood |-> "80%+", callbackTimeframe |-> "24 hours"]
  ELSE IF score >= ScoreRecommended
  THEN [recommendation |-> "recommended", viabilityRating |-> "High",
        approvalLikelihood |-> "60-80%", callbackTimeframe |-> "48 hours"]
  ELSE IF score >= ScoreConsiderCaution
  THEN [recommendation |-> "consider_caution", viabilityRating |-> "Medium",
        approvalLikelihood |-> "40-60%", callbackTimeframe |-> "3-5 business days"]
  ELSE [recommendation |-> "weak_case", viabilityRating |-> "Low",
        approvalLikelihood |-> "20-40%", callbackTimeframe |-> "5-7 business days"]

\* getRecommendation with the 'recommended' tier starting at 50
getRecommendation_RecommendedFrom50(score) ==
  IF score >= ScoreHighlyRecommended
  THEN [recommendation |-> "highly_recommended", viabilityRating |-> "Very High",
        approvalLikelihood |-> "80%+", callbackTimeframe |-> "24 hours"]
  ELSE IF score >= 50
  THEN [recommendation |-> "recommended", viabilityRating |-> "High",
        approvalLikelihood |-> "60-80%", callbackTimeframe |-> "48 hours"]
  ELSE IF score >= ScoreConsiderCaution
  THEN [recommendation |-> "consider_caution", viabilityRating |-> "Medium",
        approvalLikelihood |-> "40-60%", callbackTimeframe |-> "3-5 business days"]
  ELSE IF score >= ScoreWeakCase
  THEN [recommendation |-> "weak_case", viabilityRating |-> "Low",
        approvalLikelihood |-> "20-40%", callbackTimeframe |-> "5-7 business days"]
  ELSE [recommendation |-> "not_recommended", viabilityRating |-> "Very Low",
        approvalLikelihood |-> "<20%", callbackTimeframe |-> "as time permits"]

getRecommendation(score) ==
  IF score >= ScoreHighlyRecommended
  THEN [recommendation |-> "highly_recommended", viabilityRating |-> "Very High",
        approvalLikelihood |-> "80%+", callbackTimeframe |-> "24 hours"]
  ELSE IF score >= ScoreRecommended
  THEN [recommendation |-> "recommended", viabilityRating |-> "High",
        approvalLikelihood |-> "60-80%", callbackTimeframe |-> "48 hours"]
  ELSE IF score >= ScoreConsiderCaution
  THEN [recommendation |-> "consider_caution", viabilityRating |-> "Medium",
        approvalLikelihood |-> "40-60%", callbackTimeframe |-> "3-5 business days"]
  ELSE IF score >= ScoreWeakCase
  THEN [recommendation |-> "weak_case", viabilityRating |-> "Low",
        approvalLikelihood |-> "20-40%", callbackTimeframe |-> "5-7 business days"]
  ELSE [recommendation |-> "not_recommended", viabilityRating |-> "Very Low",
        approvalLikelihood |-> "<20%", callbackTimeframe |-> "as time permits"]

\* index of the first table entry, in table order, whose key the condition
\* includes (the `break` at the first match); 0 if none
RECURSIVE FirstMatchFrom(_, _)
FirstMatchFrom(conditionLower, i) ==
  IF i > Len(CONDITION_SCORES) THEN 0
  ELSE IF Includes(conditionLower, CONDITION_SCORES[i].key) THEN i
  ELSE Let(i + 1, LAMBDA j : FirstMatchFrom(conditionLower, j))

FirstMatch(conditionLower) == Let(conditionLower, LAMBDA c : FirstMatchFrom(c, 1))

\* the contribution of one condition to conditionScore, in units
OneConditionScore(condition, severity, age) ==
  LET sev == getSeverityMultiplier(severity)
  IN Let(FirstMatch(ToLowerCase(condition)), LAMBDA i :
       IF i = 0 THEN 10 * sev * (Unit \div 100)
       ELSE CONDITION_SCORES[i].baseScore
              * (300 + 25 * CONDITION_SCORES[i].approvalRate) * sev
            + (IF age >= 55 THEN 10 * Unit ELSE IF age >= 50 THEN 5 * Unit ELSE 0))

RECURSIVE SumSeq(_)
SumSeq(seq) == IF Len(seq) = 0 THEN 0 ELSE Head(seq) + SumSeq(Tail(seq))

OneMedicationScore(med) ==
  Let(ToLowerCase(med), LAMBDA medLower :
    IF Some(HIGH_SEVERITY_MEDS, LAMBDA m : Includes(medLower, m)) THEN 15
    ELSE IF Some(MODERATE_SEVERITY_MEDS, LAMBDA m : Includes(medLower, m)) THEN 8
    ELSE 3)

\* an optional number compared as JavaScript does (`x !== undefined && x <= n`)
DefLe(x, n) == IsDef(x) /\ Val(x) <= n
DefGe(x, n) == IsDef(x) /\ Val(x) >= n
\* (fl.liftingPounds || 50)
LiftingOr50(fl) == IF TruthyNum(fl.liftingPounds) THEN Val(fl.liftingPounds) ELSE 50

\* Math.round(raw * 0.7 + raw * 0.3 * ageMultiplier) for raw in units and the
\* multiplier in hundredths, then clamped to 0..100
\* the normalisation without Math.max(0, ...): a negative total stays
\* negative
Normalize_NoFloor(raw, ageMultiplier) ==
  LET f == 700 + 3 * ageMultiplier
      q == raw \div 1000
      r == raw % 1000
      scaled == q * f + ((r * f) \div 1000)
      rounded == (scaled + (Unit \div 2)) \div Unit
  IN Min(100, rounded)

Normalize(raw, ageMultiplier) ==
  LET f == 700 + 3 * ageMultiplier
      q == raw \div 1000
      r == raw % 1000
      scaled == q * f + ((r * f) \div 1000)
      rounded == (scaled + (Unit \div 2)) \div Unit
  IN Max(0, Min(100, rounded))

\* calculateScore throws a TypeError exactly when a list it reads is undefined
calculateScoreThrows(d) ==
  \/ ~IsDef(d.medical.conditions)
  \/ ~IsDef(d.medical.sideEffects)

\* the grid-rule chain as three independent `if`s: every rule whose
\* condition holds is applied
GridRule_Independent(age, education, fl) ==
  LET limitedEducation == education \in {Def("limited"), Def("marginal"), Def("illiterate")}
  IN (IF age >= 60 /\ LiftingOr50(fl) <= 20 THEN <<1>> ELSE <<>>)
     \o (IF age >= 55 /\ limitedEducation /\ LiftingOr50(fl) <= 20 THEN <<2>> ELSE <<>>)
     \o (IF age >= 50 /\ limitedEducation /\ LiftingOr50(fl) <= 10 THEN <<3>> ELSE <<>>)

\* the branches of the grid-rule chain (1199-1208) that are executed, in
\* order: 1 is rule 202.01, 2 is 202.04, 3 is 201.14
GridRule(age, education, fl) ==
  LET limitedEducation == education \in {Def("limited"), Def("marginal"), Def("illiterate")}
  IN IF age >= 60 /\ LiftingOr50(fl) <= 20 THEN <<1>>
     ELSE IF age >= 55 /\ limitedEducation /\ LiftingOr50(fl) <= 20 THEN <<2>>
     ELSE IF age >= 50 /\ limitedEducation /\ LiftingOr50(fl) <= 10 THEN <<3>>
     ELSE <<>>

\* what one branch of the chain adds to gridBonus and pushes on caseStrengths
GridBonusOf(rule) == IF rule = 1 THEN 35 ELSE IF rule = 2 THEN 30 ELSE 25

GridStrengthOf(rule) ==
  IF rule = 1 THEN "Grid Rule 202.01 may apply (60+, light RFC)"
  ELSE IF rule = 2
  THEN "Grid Rule 202.04 may apply (55+, limited education, light RFC)"
  ELSE "Grid Rule 201.14 may apply (50+, limited education, sedentary RFC)"

\* calculateScore up to the normalisation (950-1222): the raw total in units,
\* the age multiplier in hundredths, and the strengths and concerns collected
scoreParts(d) ==
  LET age == IF TruthyNum(d.demographics.age) THEN Val(d.demographics.age) ELSE 0
      ageMultiplier == IF age >= 60 THEN 150 ELSE IF age >= 55 THEN 135
                       ELSE IF age >= 50 THEN 115 ELSE 70
      ageStrengths ==
        IF age >= 60 THEN <<"Age 60+ (Approaching Retirement Age - most favorable Grid Rules)">>
        ELSE IF age >= 55 THEN <<"Age 55-59 (Advanced Age - significant Grid Rule advantage)">>
        ELSE IF age >= 50 THEN <<"Age 50-54 (Closely Approaching Advanced Age - Grid Rule advantage)">>
        ELSE <<>>
      ageConcerns ==
        IF age < 50 THEN <<"Under 50 (must meet or equal a listing, or have severe limitations)">>
        ELSE <<>>
      education == d.education.level
      lowEducation == education \in {Def("illiterate"), Def("marginal")}
      educationBonus ==
        IF lowEducation THEN (IF age >= 50 THEN 8 ELSE 3)
        ELSE IF education = Def("limited") THEN (IF age >= 50 THEN 5 ELSE 2)
        ELSE IF education = Def("college") THEN -5 ELSE 0
      eduStrengths ==
        IF lowEducation THEN <<"Marginal/Limited education (favorable for Grid Rules)">>
        ELSE IF education = Def("limited")
        THEN <<"Limited education (7th-11th grade - Grid Rule favorable)">>
        ELSE <<>>
      eduConcerns ==
        IF education = Def("college")
        THEN <<"College education (transferable skills may be assumed)">> ELSE <<>>
      conditions == Val(d.medical.conditions)
      conditionCount == Len(conditions)
      conditionScore ==
        SumSeq([i \in 1..conditionCount |->
                  OneConditionScore(conditions[i], d.medical.severity, age)])
      matchedCategory(i) ==
        Let(FirstMatch(ToLowerCase(conditions[i])), LAMBDA k :
          IF k = 0 THEN "" ELSE CONDITION_SCORES[k].category)
      hasMental == \E i \in 1..conditionCount : matchedCategory(i) = "mental"
      hasPhysical == \E i \in 1..conditionCount : matchedCategory(i) \notin {"", "mental"}
      multiBonus == IF conditionCount >= 4 THEN 25 ELSE IF conditionCount >= 3 THEN 18
                    ELSE IF conditionCount >= 2 THEN 10 ELSE 0
      multiStrengths ==
        IF conditionCount >= 4 THEN <<"4+ medical conditions (significant combined effect)">>
        ELSE IF conditionCount >= 3 THEN <<"3 medical conditions (combined effect consideration)">>
        ELSE IF conditionCount >= 2 THEN <<"Multiple medical conditions">> ELSE <<>>
      comorbid == hasMental /\ hasPhysical
      meds == IF IsDef(d.medical.medications) THEN Val(d.medical.medications) ELSE <<>>
      sideEffects == Val(d.medical.sideEffects)
      medicationScore ==
        SumSeq([i \in 1..Len(meds) |-> OneMedicationScore(meds[i])])
        + (IF Len(meds) >= 10 THEN 15 ELSE IF Len(meds) >= 7 THEN 10
           ELSE IF Len(meds) >= 5 THEN 5 ELSE 0)
        + (IF Len(sideEffects) > 0 THEN Min(Len(sideEffects) * 5, 15) ELSE 0)
      medStrengths ==
        IF Len(meds) >= 10 THEN <<"10+ medications (high treatment complexity)">>
        ELSE IF Len(meds) >= 7 THEN <<>>
        ELSE IF Len(meds) >= 5 THEN <<"5+ medications (polypharmacy)">> ELSE <<>>
      fl == d.functionalLimitations
      devices == Val(fl.assistiveDevices)
      functionalScore ==
        (IF DefLe(fl.liftingPounds, 10) THEN 25
         ELSE IF DefLe(fl.liftingPounds, 20) THEN 15 ELSE 0)
        + (IF DefLe(fl.sittingMinutes, 30) THEN 20 ELSE 0)
        + (IF DefLe(fl.standingMinutes, 15) THEN 18 ELSE 0)
        + (IF DefLe(fl.walkingBlocks, 1) THEN 15 ELSE 0)
        + (IF TruthyBool(fl.concentrationIssues) THEN 12 ELSE 0)
        + (IF TruthyBool(fl.memoryIssues) THEN 10 ELSE 0)
        + (IF TruthyBool(fl.socialDifficulties) THEN 12 ELSE 0)
        + (IF DefGe(fl.expectedAbsences, 2) THEN 25 ELSE 0)
        + (IF TruthyBool(fl.needsToLieDown) THEN 15 ELSE 0)
        + (IF Len(devices) > 0 THEN Len(devices) * 5 ELSE 0)
      flStrengths ==
        (IF DefLe(fl.liftingPounds, 10) THEN <<"Sedentary lifting capacity (10 lbs or less)">>
         ELSE IF DefLe(fl.liftingPounds, 20) THEN <<"Light work capacity (20 lbs or less)">>
         ELSE <<>>)
        \o (IF DefLe(fl.sittingMinutes, 30)
            THEN <<"Cannot sit for extended periods (erodes sedentary base)">> ELSE <<>>)
        \o (IF DefLe(fl.standingMinutes, 15)
            THEN <<"Cannot stand more than 15 minutes">> ELSE <<>>)
        \o (IF TruthyBool(fl.concentrationIssues)
            THEN <<"Concentration difficulties (impacts work pace)">> ELSE <<>>)
        \o (IF TruthyBool(fl.socialDifficulties)
            THEN <<"Social interaction difficulties">> ELSE <<>>)
        \o (IF DefGe(fl.expectedAbsences, 2)
            THEN <<"Would miss 2+ days/month (precludes competitive employment)">> ELSE <<>>)
        \o (IF TruthyBool(fl.needsToLieDown) THEN <<"Needs to lie down during day">> ELSE <<>>)
        \o (IF Len(devices) > 0 THEN <<"Uses assistive devices">> ELSE <<>>)
      wh == d.workHistory
      jobs == Val(wh.jobs)
      hasUnskilled ==
        Some(jobs, LAMBDA j :
          \E lower \in {ToLowerCase(j.title)} :
            Some(unskilledKeywords, LAMBDA k : Includes(lower, k)))
      longHistory == TruthyNum(wh.totalWorkYears) /\ Val(wh.totalWorkYears) >= 20
      workScore ==
        (IF wh.heaviestLifting = Def("very_heavy") THEN 25
         ELSE IF wh.heaviestLifting = Def("heavy") THEN 20
         ELSE IF wh.heaviestLifting = Def("medium") THEN 15
         ELSE IF wh.heaviestLifting = Def("sedentary") THEN -10 ELSE 0)
        + (IF hasUnskilled THEN 15 ELSE 0)
        + (IF longHistory THEN 10 ELSE 0)
      whStrengths ==
        (IF wh.heaviestLifting = Def("very_heavy") THEN <<"Very heavy work history (100+ lbs)">>
         ELSE IF wh.heaviestLifting = Def("heavy") THEN <<"Heavy work history (50-100 lbs)">>
         ELSE <<>>)
        \o (IF hasUnskilled THEN <<"Unskilled work history (no transferable skills)">> ELSE <<>>)
        \o (IF longHistory THEN <<"20+ years work history (credibility factor)">> ELSE <<>>)
      whConcerns ==
        IF wh.heaviestLifting = Def("sedentary")
        THEN <<"Sedentary work history (transferable skills to desk work)">> ELSE <<>>
      rules == GridRule(age, education, fl)
      gridBonus == SumSeq([i \in 1..Len(rules) |-> GridBonusOf(rules[i])])
      gridStrengths == [i \in 1..Len(rules) |-> GridStrengthOf(rules[i])]
      hospitalizations ==
        IF TruthyNum(d.medical.hospitalizations) THEN Val(d.medical.hospitalizations) ELSE 0
      hospBonus == IF hospitalizations >= 3 THEN 10
                   ELSE IF hospitalizations >= 1 THEN hospitalizations * 3 ELSE 0
      hospStrengths ==
        IF hospitalizations >= 3 THEN <<"3+ hospitalizations in past year">> ELSE <<>>
      raw == conditionScore
             + Unit * (educationBonus + multiBonus + (IF comorbid THEN 15 ELSE 0)
                       + medicationScore + functionalScore + workScore
                       + gridBonus + hospBonus)
  IN [ raw |-> raw,
       ageMultiplier |-> ageMultiplier,
       gridBonus |-> gridBonus,
       caseStrengths |->
         ageStrengths \o eduStrengths \o multiStrengths
         \o (IF comorbid
             THEN <<"Mental + Physical conditions (erodes occupational base)">> ELSE <<>>)
         \o medStrengths \o flStrengths \o whStrengths \o gridStrengths
         \o hospStrengths,
       caseConcerns |-> ageConcerns \o eduConcerns \o whConcerns ]

calculateScore(d) ==
  Let(scoreParts(d), LAMBDA p :
    Let(Normalize(p.raw, p.ageMultiplier), LAMBDA totalScore :
      Let(getRecommendation(totalScore), LAMBDA rec :
        [ totalScore |-> totalScore,
          recommendation |-> rec.recommendation,
          viabilityRating |-> rec.viabilityRating,
          approvalLikelihood |-> rec.approvalLikelihood,
          caseStrengths |-> p.caseStrengths,
          caseConcerns |-> p.caseConcerns,
          callbackTimeframe |-> rec.callbackTimeframe ])))

----------------------------------------------------------------------------
(* IntakeSession: assessment, end of call, callback request (529-718) *)

recordAssessment(d, f, o, sc, args) ==
  LET d1 == IF TruthyStr(args.notes) THEN [d EXCEPT !.notes = Val(args.notes)] ELSE d
  IN IF calculateScoreThrows(d1)
     THEN Threw(d1, f, o, sc, <<>>)
     ELSE Let(calculateScore(d1), LAMBDA s :
            Result(d1, f, o, Def(s),
                   [score |-> s.totalScore, recommendation |-> s.recommendation,
                    callback_timeframe |-> s.callbackTimeframe],
                   <<>>))

\* const canSendSms = sendSms && consentGiven && demographics.phone && config.sms.enabled
canSendSms(d, args) ==
  /\ TruthyBool(args.send_sms)
  /\ TruthyBool(d.smsConsent.consentGiven)
  /\ TruthyStr(d.demographics.phone)
  /\ config.sms.enabled

endCall(d, f, o, sc, args) ==
  LET o1 == args.outcome
      can == canSendSms(d, args)
      l == <<Info("call_ending")>>
           \o (IF ~can /\ TruthyBool(args.send_sms)
                  /\ ~TruthyBool(d.smsConsent.consentGiven)
               THEN <<InfoReason("sms_skipped", "no_consent")>> ELSE <<>>)
  IN [ Result(d, f, o1, sc, [call_ended |-> TRUE, sms_sent |-> can], l)
       EXCEPT !.sms = IF can THEN d.demographics.phone ELSE Undef ]

\* `saveOk`: whether db.saveCallbackRequest resolved
recordCallbackRequest(d, f, o, sc, args, saveOk) ==
  LET isUrgent == TruthyBool(args.is_urgent)
      l0 == <<>>
  IN IF saveOk
     THEN Result(d, f, "callback_request", sc,
                 [recorded |-> TRUE,
                  callback_timeframe |->
                    IF isUrgent THEN "within 24 hours" ELSE "within 1-2 business days"],
                 l0)
     ELSE Result(d, f, "callback_request", sc,
                 [recorded |-> FALSE, error |-> "Failed to save callback request"],
                 l0)

\* the names the dispatch switch knows
KnownFunctions ==
  { "record_demographics", "record_education", "record_medical_conditions",
    "record_medications", "record_functional_limitations", "record_work_history",
    "record_application_status", "record_sms_consent", "record_assessment",
    "flag_urgent", "request_human_transfer", "end_call", "record_callback_request" }

\* IntakeSession.handleFunctionCall (192-239): the dispatch on the name
handleFunctionCall(d, f, o, sc, name, args, saveOk) ==
  CASE name = "record_demographics" -> recordDemographics(d, f, o, sc, args)
    [] name = "record_education" -> recordEducation(d, f, o, sc, args)
    [] name = "record_medical_conditions" -> recordMedicalConditions(d, f, o, sc, args)
    [] name = "record_medications" -> recordMedications(d, f, o, sc, args)
    [] name = "record_functional_limitations" ->
         recordFunctionalLimitations(d, f, o, sc, args)
    [] name = "record_work_history" -> recordWorkHistory(d, f, o, sc, args)
    [] name = "record_application_status" -> recordApplicationStatus(d, f, o, sc, args)
    [] name = "record_sms_consent" -> recordSmsConsent(d, f, o, sc, args)
    [] name = "record_assessment" -> recordAssessment(d, f, o, sc, args)
    [] name = "flag_urgent" -> flagUrgent(d, f, o, sc, args)
    [] name = "request_human_transfer" -> requestHumanTransfer(d, f, o, sc, args)
    [] name = "end_call" -> endCall(d, f, o, sc, args)
    [] name = "record_callback_request" ->
         recordCallbackRequest(d, f, o, sc, args, saveOk)
    [] OTHER -> unknownFunction(d, f, o, sc, name)

----------------------------------------------------------------------------
(* OpenAIRealtimeClient (openaiRealtime.ts 58-493)                         *)
(* client.promptsSent counts the re-prompts that reached the backend and   *)
(* client.promptsSinceSpeech those since the caller last spoke; client.events *)
(* counts the backend events delivered.                                    *)
(* client.ws is whether this.ws is non-null, client.readyState the state   *)
(* of the socket; client.silenceTimeout is whether the handle is non-null, *)
(* client.timerPending whether the runtime still holds a timer that has    *)
(* neither fired nor been cleared.                                         *)

MAX_SILENCE_PROMPTS == 2
FIRST_SILENCE_TIMEOUT_MS == 20000
SILENCE_TIMEOUT_MS == 15000

\* out is what the latest sending routine put on the socket, first the type
\* of the first message of the connection, acked whether session.updated
\* arrived, responseInProgress whether the backend announced a response it
\* has not finished, pending the function calls whose callback has not
\* settled, caught the number of exceptions that reached the catch of
\* handleMessage (290-292), currentTranscript the accumulator of the
\* assistant's transcript (64) as the sequence of the deltas appended
InitClient ==
  [ ws |-> FALSE, readyState |-> "NONE", isConnected |-> FALSE,
    silenceTimeout |-> FALSE, timerPending |-> FALSE, timeoutMs |-> 0,
    silencePromptCount |-> 0, callEnding |-> FALSE,
    promptsSent |-> 0, promptsSinceSpeech |-> 0, events |-> 0,
    out |-> <<>>, first |-> "", acked |-> FALSE, responseInProgress |-> FALSE,
    pending |-> {}, audioChunkCount |-> 0, caught |-> 0,
    currentTranscript |-> <<>> ]

\* the client between `new WebSocket(url)` and the 'open' event (88-93)
ConnectingClient ==
  [ InitClient EXCEPT !.ws = TRUE, !.readyState = "CONNECTING" ]

\* the messages the client sends (RealtimeEvent values)
Msg(type, item, text, call_id, output) ==
  [ type |-> type, item |-> item, text |-> text, call_id |-> call_id,
    output |-> output ]
SessionUpdate == Msg("session.update", "", "", "", "")
GreetingItem ==
  Msg("conversation.item.create", "message", "[SYSTEM: Call connected.", "", "")
SilencePromptItem ==
  Msg("conversation.item.create", "message", "[SYSTEM: The caller has been quiet.",
      "", "")
ResponseCreateAudio == Msg("response.create", "", "text,audio", "", "")
ResponseCreate == Msg("response.create", "", "", "", "")
ResponseCancel == Msg("response.cancel", "", "", "", "")
AudioAppend == Msg("input_audio_buffer.append", "", "", "", "")
FunctionCallOutput(call_id, output) ==
  Msg("conversation.item.create", "function_call_output", "", call_id, output)
FunctionFailedOutput == "{\"error\":\"Function execution failed\"}"

\* send(): the message goes out only through an open, referenced socket
CanSend(c) == c.ws /\ c.readyState = "OPEN"

send(c, m) ==
  IF CanSend(c)
  THEN [c EXCEPT !.out = Append(@, m),
                 !.first = IF @ = "" THEN m.type ELSE @]
  ELSE c

\* a routine that sends starts with nothing sent
Begin(c) == [c EXCEPT !.out = <<>>]

\* initializeSession with the greeting sent at once instead of on
\* session.updated
initializeSession_GreetsAtOnce(c) ==
  send(send(send(Begin(c), SessionUpdate), GreetingItem), ResponseCreateAudio)

initializeSession(c) == send(Begin(c), SessionUpdate)

triggerInitialGreeting(c) ==
  send(send(Begin(c), GreetingItem), ResponseCreateAudio)

\* sendAudio writing to the socket without the checks of lines 344 and 391
sendAudio_Unguarded(c) ==
  [c EXCEPT !.out = <<AudioAppend>>,
            !.first = IF @ = "" THEN AudioAppend.type ELSE @]

\* sendAudio (343-350)
sendAudio(c) ==
  IF ~c.isConnected \/ ~c.ws THEN c ELSE send(Begin(c), AudioAppend)

cancelResponse(c) ==
  IF ~c.isConnected \/ ~c.ws THEN c ELSE send(Begin(c), ResponseCancel)

\* the state after connect() resolved (ws 'open' handler, 95-100)
OpenClient ==
  initializeSession([ ConnectingClient EXCEPT !.readyState = "OPEN",
                                              !.isConnected = TRUE ])

\* clearSilenceTimeout dropping the handle without clearTimeout (420): the
\* runtime still holds the timer
clearSilenceTimeout_HandleOnly(c) ==
  IF c.silenceTimeout THEN [c EXCEPT !.silenceTimeout = FALSE] ELSE c

clearSilenceTimeout(c) ==
  IF c.silenceTimeout
  THEN [c EXCEPT !.silenceTimeout = FALSE, !.timerPending = FALSE]
  ELSE c

\* startSilenceTimeout without its MAX_SILENCE_PROMPTS check (406-409)
startSilenceTimeout_NoCap(c) ==
  LET c1 == clearSilenceTimeout(c)
  IN IF c1.callEnding THEN c1
     ELSE [ c1 EXCEPT !.silenceTimeout = TRUE, !.timerPending = TRUE,
                      !.timeoutMs = IF c1.silencePromptCount = 0
                                    THEN FIRST_SILENCE_TIMEOUT_MS
                                    ELSE SILENCE_TIMEOUT_MS ]

\* startSilenceTimeout without its callEnding check (400-404)
startSilenceTimeout_NoEndingCheck(c) ==
  LET c1 == clearSilenceTimeout(c)
  IN IF c1.silencePromptCount >= MAX_SILENCE_PROMPTS THEN c1
     ELSE [ c1 EXCEPT !.silenceTimeout = TRUE, !.timerPending = TRUE,
                      !.timeoutMs = IF c1.silencePromptCount = 0
                                    THEN FIRST_SILENCE_TIMEOUT_MS
                                    ELSE SILENCE_TIMEOUT_MS ]

startSilenceTimeout(c) ==
  LET c1 == clearSilenceTimeout(c)
  IN IF c1.callEnding THEN c1
     ELSE IF c1.silencePromptCount >= MAX_SILENCE_PROMPTS THEN c1
     ELSE [ c1 EXCEPT !.silenceTimeout = TRUE, !.timerPending = TRUE,
                      !.timeoutMs = IF c1.silencePromptCount = 0
                                    THEN FIRST_SILENCE_TIMEOUT_MS
                                    ELSE SILENCE_TIMEOUT_MS ]

\* the timer callback; the timer that ran is no longer pending
handleSilenceTimeout(c) ==
  LET c0 == [c EXCEPT !.timerPending = FALSE]
      c1 == [ c0 EXCEPT !.silencePromptCount = c0.silencePromptCount + 1,
                        !.promptsSent = IF CanSend(c0) THEN c0.promptsSent + 1
                                        ELSE c0.promptsSent,
                        !.promptsSinceSpeech =
                           IF CanSend(c0) THEN c0.promptsSinceSpeech + 1
                           ELSE c0.promptsSinceSpeech ]
  IN IF c0.callEnding THEN c0
     ELSE send(send(Begin(c1), SilencePromptItem), ResponseCreateAudio)

\* handleFunctionCall after the callback settled without I/O pending, with
\* the continuation request left out
sendFunctionResult_NoContinue(c, call_id, output) ==
  send(Begin(c), FunctionCallOutput(call_id, output))

\* handleFunctionCall, the two sends of its try and of its catch (311-340)
sendFunctionResult(c, call_id, output) ==
  send(send(Begin(c), FunctionCallOutput(call_id, output)), ResponseCreate)

resetSilenceCounter(c) == [c EXCEPT !.silencePromptCount = 0]

markCallEnding(c) == clearSilenceTimeout([c EXCEPT !.callEnding = TRUE])

close(c) ==
  LET c1 == clearSilenceTimeout(c)
  IN [ c1 EXCEPT !.ws = FALSE, !.isConnected = FALSE,
                 !.readyState = IF c1.ws /\ c1.readyState \in {"CONNECTING", "OPEN"}
                                THEN "CLOSING" ELSE c1.readyState ]

\* the socket still delivers 'message' events: it is open, or close() was
\* called and the closing handshake has not finished
Delivers(c) == c.readyState \in {"OPEN", "CLOSING"}

othersUnchangedByClient ==
  UNCHANGED <<config, callerInfo, data, flags, outcome, scoring, log, ret,
              smsCalls, smsInFlight, nCalls, fin, effects, bridge>>

\* handleMessage, case 'response.done' (264-268)
ResponseDone ==
  /\ Delivers(client) /\ client.events < MaxEvents
  /\ client' = [startSilenceTimeout(client) EXCEPT !.events = client.events + 1,
                                                   !.responseInProgress = FALSE]
  /\ othersUnchangedByClient

\* handleMessage, case 'input_audio_buffer.speech_started' (254-258)
SpeechStarted ==
  /\ Delivers(client) /\ client.events < MaxEvents
  /\ client' = [clearSilenceTimeout(client) EXCEPT !.events = client.events + 1]
  /\ othersUnchangedByClient

\* handleMessage, case 'conversation.item.input_audio_transcription.completed'
\* with a non-empty transcript (240-247)
UserTranscript ==
  /\ Delivers(client) /\ client.events < MaxEvents
  /\ client' = [resetSilenceCounter(client) EXCEPT !.events = client.events + 1,
                                                   !.promptsSinceSpeech = 0]
  /\ data' = IF bridge.intakeSession
             THEN [data EXCEPT !.transcript = Append(@, [role |-> "user"])]
             ELSE data
  /\ UNCHANGED <<config, callerInfo, flags, outcome, scoring, log, ret,
                 smsCalls, smsInFlight, nCalls, fin, effects, bridge>>

\* handleMessage, case 'session.updated' (202-206)
SessionUpdated ==
  /\ Delivers(client)
  /\ client' = [triggerInitialGreeting(client) EXCEPT !.acked = TRUE]
  /\ othersUnchangedByClient

\* handleMessage, case 'response.created' (275-277): logged
ResponseCreated ==
  /\ Delivers(client)
  /\ client' = [client EXCEPT !.responseInProgress = TRUE]
  /\ othersUnchangedByClient

\* the carrier's 'media' message (part_002 161-168) -> sendAudio (343-350)
TwilioMedia ==
  /\ bridge.twilioWs = "OPEN" /\ bridge.openaiClient
  /\ client' = sendAudio(client)
  /\ othersUnchangedByClient

CallIds == {"call_1", "call_2"}
CallbackResult == "{\"recorded\":true}"

\* handleMessage, case 'response.function_call_arguments.done' (249-252) ->
\* handleFunctionCall (297-341) up to the point where it waits for I/O of
\* the callback: JSON.parse fails or not; the callback resolves or throws
\* without waiting, or waits
FunctionCallArrives(call_id, parseOk, cb) ==
  /\ Delivers(client) /\ client.events < MaxEvents
  /\ call_id \notin {p.call_id : p \in client.pending}
  /\ \E c \in {[client EXCEPT !.events = client.events + 1]} :
       client' =
         IF ~parseOk \/ cb = "throws"
         THEN sendFunctionResult(c, call_id, FunctionFailedOutput)
         ELSE IF cb = "resolves"
         THEN sendFunctionResult(c, call_id, CallbackResult)
         ELSE [c EXCEPT !.pending =
                 @ \cup {[call_id |-> call_id, whileOpen |-> CanSend(client)]}]
  /\ othersUnchangedByClient

FunctionCallDone ==
  \E call_id \in CallIds, parseOk \in BOOLEAN,
     cb \in {"resolves", "throws", "waits"} :
    FunctionCallArrives(call_id, parseOk, cb)

\* the callback a handleFunctionCall waited for settles (307-340)
FunctionCallSettles(call_id, ok) ==
  /\ \E p \in client.pending :
       /\ p.call_id = call_id
       /\ client' = sendFunctionResult([client EXCEPT !.pending = @ \ {p}], call_id,
                                       IF ok THEN CallbackResult
                                       ELSE FunctionFailedOutput)
  /\ othersUnchangedByClient

FunctionCallbackSettles ==
  \E call_id \in CallIds, ok \in BOOLEAN : FunctionCallSettles(call_id, ok)

\* the runtime runs the pending timer's callback (414-416)
SilenceTimerFires ==
  /\ client.timerPending
  /\ client' = handleSilenceTimeout(client)
  /\ othersUnchangedByClient

MarkCallEnding ==
  /\ ~client.callEnding
  /\ client' = markCallEnding(client)
  /\ othersUnchangedByClient

ClientClose ==
  /\ client.ws
  /\ client' = close(client)
  /\ othersUnchangedByClient

\* the closing handshake finishes: ws 'close' handler (112-120)
ClientSocketClosed ==
  /\ client.readyState = "CLOSING"
  /\ client' = [client EXCEPT !.readyState = "CLOSED", !.isConnected = FALSE]
  /\ othersUnchangedByClient

\* the backend or the network ends the connection: ws 'close' handler
\* (112-120); the bridge's onClose logs (part_002 148-150)
BackendCloses ==
  /\ client.ws /\ client.readyState = "OPEN"
  /\ client' = [client EXCEPT !.readyState = "CLOSED", !.isConnected = FALSE]
  /\ othersUnchangedByClient

\* the connection fails: ws 'error' handler (106-110), the bridge's onError
\* logs (part_002 145-147) and connect() rejects into the 'start' handler's
\* catch (part_002 155-157); the socket library then emits 'close' (112-120)
ClientSocketError ==
  /\ client.ws /\ client.readyState \in {"CONNECTING", "OPEN"}
  /\ client' = [client EXCEPT !.readyState = "CLOSED", !.isConnected = FALSE]
  /\ bridge' = [bridge EXCEPT !.onError = @ + 1]
  /\ UNCHANGED <<config, callerInfo, data, flags, outcome, scoring, log, ret,
                 smsCalls, smsInFlight, nCalls, fin, effects>>

----------------------------------------------------------------------------
(* SkinnyAppClient.mapToScoringResult (skinnyAppClient.ts 346-398) *)

recommendationMap(r) ==
  CASE r \in {"Highly Recommended", "Strong Referral"} -> "highly_recommended"
    [] r \in {"Recommended", "Moderate Referral"} -> "recommended"
    [] r \in {"Conditional Referral", "Consider with Caution"} -> "consider_caution"
    [] r \in {"Weak Referral", "Weak Case"} -> "weak_case"
    [] r = "Not Recommended" -> "not_recommended"
    [] OTHER -> "consider_caution"

likelihoodMap(v) ==
  CASE v = "Very High" -> "80%+"
    [] v = "High" -> "60-80%"
    [] v = "Moderate" -> "40-60%"
    [] v = "Low" -> "20-40%"
    [] v = "Very Low" -> "<20%"
    [] OTHER -> "40-60%"

IsConcernFactor(factor) ==
  \E lowerFactor \in {ToLowerCase(factor)} :
    Some(<<"concern", "weak", "challenge", "risk", "negative">>,
         LAMBDA w : Includes(lowerFactor, w))

mapToScoringResult(response) ==
  [ totalScore |-> response.score,
    recommendation |-> recommendationMap(response.recommendation),
    viabilityRating |-> response.viabilityRating,
    approvalLikelihood |-> likelihoodMap(response.viabilityRating),
    caseStrengths |-> SelectSeq(response.keyFactors, LAMBDA x : ~IsConcernFactor(x)),
    caseConcerns |-> SelectSeq(response.keyFactors, IsConcernFactor),
    callbackTimeframe |->
      IF response.score >= 70 THEN "24 hours"
      ELSE IF response.score >= 45 THEN "48 hours"
      ELSE IF response.score >= 25 THEN "3-5 days" ELSE "5-7 days" ]

\* the responses the remote scoring service gives in the model
RemoteResponses ==
  { [ score |-> 82, recommendation |-> "Strong Referral",
      viabilityRating |-> "Very High",
      keyFactors |-> <<"Advanced age", "Risk: sedentary work history">> ] }

----------------------------------------------------------------------------
(* IntakeSession.finalize (720-847), one step per await                    *)
(* fin[i].pc is where invocation i is suspended:                           *)
(*   "submit" awaiting skinnyAppClient.submitAssessment                    *)
(*   "save"   awaiting db.saveIntake                                       *)
(*   "staff"  awaiting emailService.sendIntakeNotification                 *)
(*   "client" awaiting emailService.sendClientConfirmation                 *)
(*   "done"   returned, "rejected" threw                                   *)
(* The IntakeResult holds this.data and this.flags by reference and the    *)
(* scoring and outcome it was built with; fin[i].returned is the value of  *)
(* the result at the moment finalize() returned.                           *)

InitEffects == [submit |-> 0, save |-> 0, staffEmail |-> 0, clientEmail |-> 0]

skinnyAppEnabled == config.skinnyApp.enabled

NewInvocation ==
  [ pc |-> "start", scoring |-> Undef, outcome |-> "", returned |-> Undef,
    attempted |-> {}, failed |-> {} ]

\* the IntakeResult of invocation i as its holder sees it now
ResultOf(i) ==
  [ data |-> data, scoring |-> fin[i].scoring, flags |-> flags,
    outcome |-> fin[i].outcome ]

\* lines 780-803: build the result from the session and call db.saveIntake
BuildAndSave(i, f, e, sc) ==
  /\ scoring' = sc
  /\ fin' = [f EXCEPT ![i].pc = "save", ![i].scoring = sc, ![i].outcome = outcome,
                      ![i].attempted = @ \cup {"save"}]
  /\ effects' = [e EXCEPT !.save = @ + 1]

\* finalize() throws: its promise rejects
Reject(i, f, e) ==
  /\ fin' = [f EXCEPT ![i].pc = "rejected"]
  /\ effects' = e
  /\ UNCHANGED scoring

\* lines 773-778 and 767: local scoring; calculateScore may throw
LocalScoreAndSave(i, f, e, reuse) ==
  IF reuse /\ IsDef(scoring)
  THEN BuildAndSave(i, f, e, scoring)
  ELSE IF calculateScoreThrows(data)
  THEN Reject(i, f, e)
  ELSE \E s \in {calculateScore(data)} : BuildAndSave(i, f, e, Def(s))

\* the catch block of the remote attempt (759-771)
SubmitFailed(i, f, e) ==
  IF config.skinnyApp.fallbackToLocal
  THEN LocalScoreAndSave(i, [f EXCEPT ![i].failed = @ \cup {"submit"}], e, FALSE)
  ELSE Reject(i, [f EXCEPT ![i].failed = @ \cup {"submit"}], e)

\* SkinnyAppClient.submitAssessment before its fetch (240-271): the log line
\* reads data.medical.conditions.length, a TypeError when the list is undefined
submitThrowsBeforeFetch(d) == ~IsDef(d.medical.conditions)

\* finalize() is called: the code up to its first await (720-742, 773-803)
finalizeStart ==
  LET i == Len(fin) + 1
      f == Append(fin, NewInvocation)
  IN IF skinnyAppEnabled /\ outcome # "callback_request"
     THEN \E f1 \in {[f EXCEPT ![i].pc = "submit", ![i].attempted = {"submit"}]},
             e1 \in {[effects EXCEPT !.submit = @ + 1]} :
            IF submitThrowsBeforeFetch(data)
            THEN SubmitFailed(i, f1, e1)
            ELSE /\ fin' = f1
                 /\ effects' = e1
                 /\ UNCHANGED scoring
     ELSE LocalScoreAndSave(i, f, effects, TRUE)

\* finalize() returns its result (846); the 'stop' handler that awaited it
\* then closes the client (part_002 183-193)
Return(i, f) ==
  /\ fin' = [f EXCEPT ![i].pc = "done", ![i].returned = Def(ResultOf(i))]
  /\ client' = IF bridge.openaiClient THEN close(client) ELSE client

finFrame == UNCHANGED <<config, callerInfo, data, flags, outcome, log, ret,
                        smsCalls, smsInFlight, nCalls, bridge>>

\* submitAssessment settles (744-772); when finalize() throws, the 'stop'
\* handler's catch logs and does nothing else (part_002 199-201)
FinalizeSubmitSettles ==
  \E i \in 1..Len(fin) :
    /\ fin[i].pc = "submit"
    /\ \/ \E response \in RemoteResponses :
            \E s \in {mapToScoringResult(response)} :
               BuildAndSave(i, fin, effects, Def(s))
       \/ SubmitFailed(i, fin, effects)
    /\ client' = client
    /\ finFrame

\* what finalize() does with a failed db.saveIntake when the catch at
\* 805-808 re-throws
SaveSettled_Propagates(i, ok) ==
  IF ~ok
  THEN /\ fin' = [fin EXCEPT ![i].pc = "rejected", ![i].failed = @ \cup {"save"}]
       /\ UNCHANGED <<effects, client>>
  ELSE IF outcome # "callback_request"
  THEN /\ fin' = [fin EXCEPT ![i].pc = "staff", ![i].attempted = @ \cup {"staff"}]
       /\ effects' = [effects EXCEPT !.staffEmail = @ + 1]
       /\ client' = client
  ELSE /\ Return(i, fin)
       /\ effects' = effects

\* the code after db.saveIntake settled (802-811, 846)
SaveSettled(i, ok) ==
  \E f \in {[fin EXCEPT ![i].failed = IF ok THEN @ ELSE @ \cup {"save"}]} :
    IF outcome # "callback_request"
    THEN /\ fin' = [f EXCEPT ![i].pc = "staff", ![i].attempted = @ \cup {"staff"}]
         /\ effects' = [effects EXCEPT !.staffEmail = @ + 1]
         /\ client' = client
    ELSE /\ Return(i, f)
         /\ effects' = effects

\* db.saveIntake settles, successfully or not (802-828)
FinalizeSaveSettles ==
  \E i \in 1..Len(fin) :
    /\ fin[i].pc = "save"
    /\ \E ok \in BOOLEAN : SaveSettled(i, ok)
    /\ UNCHANGED scoring
    /\ finFrame

\* the code after sendIntakeNotification settled when a failed staff email
\* skips the caller's confirmation
StaffEmailSettled_SuppressesClient(i, ok) ==
  \E f \in {[fin EXCEPT ![i].failed = IF ok THEN @ ELSE @ \cup {"staff"}]} :
    IF ok /\ TruthyStr(data.demographics.email)
    THEN /\ fin' = [f EXCEPT ![i].pc = "client", ![i].attempted = @ \cup {"client"}]
         /\ effects' = [effects EXCEPT !.clientEmail = @ + 1]
         /\ client' = client
    ELSE /\ Return(i, f)
         /\ effects' = effects

\* the code after sendIntakeNotification settled (826-836, 846)
StaffEmailSettled(i, ok) ==
  \E f \in {[fin EXCEPT ![i].failed = IF ok THEN @ ELSE @ \cup {"staff"}]} :
    IF TruthyStr(data.demographics.email)
    THEN /\ fin' = [f EXCEPT ![i].pc = "client", ![i].attempted = @ \cup {"client"}]
         /\ effects' = [effects EXCEPT !.clientEmail = @ + 1]
         /\ client' = client
    ELSE /\ Return(i, f)
         /\ effects' = effects

\* sendIntakeNotification settles, successfully or not (813-843)
FinalizeStaffEmailSettles ==
  \E i \in 1..Len(fin) :
    /\ fin[i].pc = "staff"
    /\ \E ok \in BOOLEAN : StaffEmailSettled(i, ok)
    /\ UNCHANGED scoring
    /\ finFrame

\* the code after sendClientConfirmation settled (840-846)
ClientEmailSettled(i, ok) ==
  Return(i, [fin EXCEPT ![i].failed = IF ok THEN @ ELSE @ \cup {"client"}])

\* sendClientConfirmation settles, successfully or not (833-846)
FinalizeClientEmailSettles ==
  \E i \in 1..Len(fin) :
    /\ fin[i].pc = "client"
    /\ \E ok \in BOOLEAN : ClientEmailSettled(i, ok)
    /\ UNCHANGED <<scoring, effects>>
    /\ finFrame

----------------------------------------------------------------------------
(* mediaStreamHandler (src/unnamed/part_002 44-222) *)

\* sent is what the bridge put on the carrier's socket, media the number of
\* 'media' messages handled, onError the number of calls of the onError
\* callback the bridge gave the client (145-147), caught the number of
\* exceptions that reached the catch of the message handler (199-201)
InitBridge ==
  [ streamSid |-> Undef, intakeSession |-> FALSE, openaiClient |-> FALSE,
    twilioWs |-> "OPEN", stops |-> 0, sent |-> <<>>, media |-> 0, onError |-> 0,
    caught |-> 0 ]

\* sendAudioToTwilio without the check of streamSid: the frame is serialised
\* with streamSid null
sendAudioToTwilio_Unguarded(b, payload) ==
  IF b.twilioWs = "OPEN"
  THEN [b EXCEPT !.sent = Append(@, [event |-> "media",
                                     streamSid |-> IF IsDef(b.streamSid)
                                                   THEN Val(b.streamSid) ELSE "null",
                                     payload |-> payload])]
  ELSE b

\* sendAudioToTwilio (75-86), the bridge's onAudioResponse (126-128)
sendAudioToTwilio(b, payload) ==
  IF IsDef(b.streamSid) /\ b.twilioWs = "OPEN"
  THEN [b EXCEPT !.sent = Append(@, [event |-> "media",
                                     streamSid |-> Val(b.streamSid),
                                     payload |-> payload])]
  ELSE b

\* clearTwilioAudio (88-96), the bridge's onInterruption (142-144)
clearTwilioAudio(b) ==
  IF IsDef(b.streamSid) /\ b.twilioWs = "OPEN"
  THEN [b EXCEPT !.sent = Append(@, [event |-> "clear", streamSid |-> Val(b.streamSid)])]
  ELSE b

\* the closure state once 'start' was handled and connect() resolved
StartedBridge ==
  [ InitBridge EXCEPT !.streamSid = Def("MZ1"), !.intakeSession = TRUE,
                      !.openaiClient = TRUE ]

\* const callerPhone = query.callerPhone || 'unknown'  (line 50)
CallerInfoOf(query) ==
  [ callerPhone |-> IF TruthyStr(query.callerPhone) THEN Val(query.callerPhone)
                    ELSE "unknown",
    callerCity |-> IF TruthyStr(query.callerCity) THEN Val(query.callerCity) ELSE "",
    callerState |-> IF TruthyStr(query.callerState) THEN Val(query.callerState) ELSE "" ]

\* case 'start' (108-159), up to `await openaiClient.connect()`; sid is
\* message.start?.streamSid, and `|| null` turns the empty string into null
TwilioStartWith(sid) ==
  /\ bridge.twilioWs = "OPEN" /\ ~bridge.intakeSession
  /\ bridge' = [ bridge EXCEPT !.streamSid = IF TruthyStr(sid) THEN sid ELSE Undef,
                               !.intakeSession = TRUE, !.openaiClient = TRUE ]
  /\ data' = InitData(callerInfo)
  /\ flags' = InitFlags
  /\ outcome' = InitOutcome
  /\ scoring' = Undef
  /\ client' = ConnectingClient
  /\ UNCHANGED <<config, callerInfo, log, ret, smsCalls, smsInFlight, nCalls, fin, effects>>

TwilioStart == TwilioStartWith(Def("MZ1"))

\* ws 'open' handler of the client (95-100): connect() resolves
ClientOpens ==
  /\ client.readyState = "CONNECTING"
  /\ client' = initializeSession([client EXCEPT !.readyState = "OPEN",
                                                !.isConnected = client.ws])
  /\ UNCHANGED <<config, callerInfo, data, flags, outcome, scoring, log, ret, smsCalls,
                 smsInFlight, nCalls, fin, effects, bridge>>

\* case 'stop' (177-194), up to the first await inside finalize()
TwilioStop ==
  /\ bridge.twilioWs = "OPEN" /\ bridge.stops < MaxStops
  /\ bridge' = [bridge EXCEPT !.stops = @ + 1]
  /\ IF bridge.intakeSession
     THEN /\ finalizeStart
          /\ client' = client
     ELSE /\ client' = IF bridge.openaiClient THEN close(client) ELSE client
          /\ UNCHANGED <<fin, effects, scoring>>
  /\ UNCHANGED <<config, callerInfo, data, flags, outcome, log, ret, smsCalls,
                 smsInFlight, nCalls>>

\* twilioWs 'error' handler (205-207): the error is logged; the socket
\* library then emits 'close'
TwilioError ==
  /\ bridge.twilioWs = "OPEN"
  /\ bridge' = [bridge EXCEPT !.twilioWs = "CLOSING"]
  /\ UNCHANGED <<config, callerInfo, data, flags, outcome, scoring, log, ret, smsCalls,
                 smsInFlight, nCalls, fin, effects, client>>

\* twilioWs 'close' handler (210-221)
TwilioClose ==
  /\ bridge.twilioWs \in {"OPEN", "CLOSING"}
  /\ bridge' = [bridge EXCEPT !.twilioWs = "CLOSED"]
  /\ client' = IF bridge.openaiClient THEN close(client) ELSE client
  /\ UNCHANGED <<config, callerInfo, data, flags, outcome, scoring, log, ret, smsCalls,
                 smsInFlight, nCalls, fin, effects>>

\* handleMessage, case 'response.audio.delta' (208-219): the chunk goes to
\* the bridge's onAudioResponse; the chunk's number stands for its payload
AudioDelta ==
  /\ Delivers(client) /\ client.events < MaxEvents
  /\ client' = [client EXCEPT !.events = @ + 1, !.audioChunkCount = @ + 1]
  /\ bridge' = sendAudioToTwilio(bridge, client.audioChunkCount + 1)
  /\ UNCHANGED <<config, callerInfo, data, flags, outcome, scoring, log, ret,
                 smsCalls, smsInFlight, nCalls, fin, effects>>

\* case 'media' (161-168) -> sendAudio (343-350)
TwilioMediaEvent ==
  /\ bridge.twilioWs = "OPEN" /\ bridge.media < MaxMedia
  /\ bridge' = [bridge EXCEPT !.media = @ + 1]
  /\ client' = IF bridge.openaiClient THEN sendAudio(client) ELSE client
  /\ UNCHANGED <<config, callerInfo, data, flags, outcome, scoring, log, ret,
                 smsCalls, smsInFlight, nCalls, fin, effects>>

\* handleMessage, case 'error' (282-287): the error is logged
BackendErrorEvent ==
  /\ Delivers(client) /\ client.events < MaxEvents
  /\ client' = [client EXCEPT !.events = @ + 1]
  /\ othersUnchangedByClient

\* handleMessage without its try/catch: the exception leaves the socket's
\* 'message' listener and the process ends, taking the connection with it
handleMessageCatch_Uncaught(c) ==
  [c EXCEPT !.readyState = "CLOSED", !.isConnected = FALSE, !.ws = FALSE]

\* what the catch of handleMessage does (290-292): it logs
\* 'message_parse_error'
handleMessageCatch(c) == [c EXCEPT !.caught = @ + 1]

\* handleMessage with data that JSON.parse rejects (193-195, 290-292)
BackendMalformed ==
  /\ Delivers(client) /\ client.events < MaxEvents
  /\ client' = handleMessageCatch([client EXCEPT !.events = @ + 1])
  /\ othersUnchangedByClient

\* handleMessage, case 'response.function_call_arguments.done' with
\* arguments that JSON.parse rejects (249-252, 297-299, 325-340)
MalformedFunctionCall ==
  \E call_id \in CallIds : FunctionCallArrives(call_id, FALSE, "resolves")

\* the carrier's message handler without its try/catch: the rejection of
\* the async listener is unhandled and the process ends
twilioMessageCatch_Uncaught(b) == [b EXCEPT !.twilioWs = "CLOSED"]

\* what the catch of the carrier's message handler does (199-201): it logs
\* 'message_parse_error'
twilioMessageCatch(b) == [b EXCEPT !.caught = @ + 1]

\* the carrier's message handler with data that JSON.parse rejects
\* (99-101, 199-201)
TwilioMalformed ==
  /\ bridge.twilioWs = "OPEN" /\ bridge.caught < MaxCaught
  /\ bridge' = twilioMessageCatch(bridge)
  /\ UNCHANGED <<config, callerInfo, data, flags, outcome, scoring, log, ret,
                 smsCalls, smsInFlight, nCalls, fin, effects, client>>

----------------------------------------------------------------------------
(* A function call of the backend reaches the session: onFunctionCall      *)
(* (part_002 135-141) -> IntakeSession.handleFunctionCall                  *)

HandleFunctionCall(name, args, saveOk) ==
  /\ bridge.intakeSession /\ Delivers(client)
  /\ nCalls < MaxCalls
  /\ \E res \in {handleFunctionCall(data, flags, outcome, scoring, name, args, saveOk)} :
        /\ data' = res.data
        /\ flags' = res.flags
        /\ outcome' = res.outcome
        /\ scoring' = res.scoring
        /\ ret' = res.ret
        /\ log' = IF name = "end_call" THEN res.log ELSE log
        /\ smsCalls' = IF IsDef(res.sms) THEN Append(smsCalls, Val(res.sms))
                       ELSE smsCalls
        /\ smsInFlight' = IF IsDef(res.sms) THEN smsInFlight + 1 ELSE smsInFlight
  /\ nCalls' = nCalls + 1
  /\ UNCHANGED <<config, callerInfo, fin, effects, bridge, client>>

\* smsService.sendConfirmation settles inside endCall (629-639)
SmsSettles ==
  /\ smsInFlight > 0
  /\ smsInFlight' = smsInFlight - 1
  /\ \E ok \in BOOLEAN :
       log' = Append(log, IF ok THEN Info("sms_sent") ELSE Err("sms_failed"))
  /\ UNCHANGED <<config, callerInfo, data, flags, outcome, scoring, ret, smsCalls,
                 nCalls, fin, effects, bridge, client>>

----------------------------------------------------------------------------
(* Arguments of the function calls in the model *)

Dob1970 == [y |-> 1970, m |-> 3, d |-> 10]
Dob1978 == [y |-> 1978, m |-> 9, d |-> 1]

DemographicsArgs ==
  [ first_name : {Def("Ann")}, last_name : {Undef},
    date_of_birth : {Undef, Def(Dob1970), Def(Dob1978)},
    phone : {Undef, Def("+15550111")}, email : {Undef}, city : {Undef}, state : {Undef} ]

EducationArgs ==
  [ education_level : {Def("limited")}, details : {Undef} ]

MedicalArgs ==
  [ conditions : {Def(<<"Chronic back pain", "depression">>)},
    severity : {Def("severe")}, duration_months : {Undef},
    treatments : {Undef}, hospitalizations : {Def(2)} ]

MedicationsArgs ==
  [ medications : {Def(<<"Gabapentin">>)}, side_effects : {Undef} ]

FunctionalArgs ==
  [ sitting_minutes : {Def(25)}, standing_minutes : {Undef},
    walking_blocks : {Undef}, lifting_pounds : {Def(10)},
    concentration_issues : {Undef}, memory_issues : {Undef},
    social_difficulties : {Undef}, expected_absences : {Def(3)},
    needs_to_lie_down : {Undef}, assistive_devices : {Undef} ]

WorkHistoryArgs ==
  [ jobs : {Def(<<[title |-> "Warehouse worker", years |-> 32]>>)},
    heaviest_lifting : {Def("heavy")}, total_work_years : {Def(32)},
    last_work_date : {Undef}, currently_working : {Def(FALSE)} ]

ApplicationArgs ==
  { [ has_applied |-> Def(TRUE), status |-> Def("denied_initial"),
      denial_date |-> Def(TodayDay - 50), hearing_date |-> Undef ],
    [ has_applied |-> Def(TRUE), status |-> Def("waiting"),
      denial_date |-> Undef, hearing_date |-> Undef ],
    [ has_applied |-> Def(TRUE), status |-> Def("hearing_scheduled"),
      denial_date |-> Undef, hearing_date |-> Def(TodayDay + 30) ] }

SmsConsentArgs ==
  [ consent_given : {Undef, Def(TRUE), Def(FALSE)}, phone_number : {Undef} ]

AssessmentArgs == [ notes : {Def("summary")} ]

FlagUrgentArgs ==
  [ reason : {Def("caller in distress")},
    crisis_mentioned : {Undef, Def(TRUE), Def(FALSE)} ]

TransferArgs == [ reason : {Def("asked for a person")} ]

EndCallArgs == [ outcome : {"completed"}, send_sms : {Undef, Def(TRUE), Def(FALSE)} ]

CallbackArgs ==
  [ caller_name : {Def("Ann")}, phone_number : {Undef}, purpose : {Def("billing")},
    category : {Def("billing")}, is_urgent : {Undef}, notes : {Undef} ]

UnknownNames == {"record_pet", "finalize"}

RecordDemographics ==
  \E a \in DemographicsArgs : HandleFunctionCall("record_demographics", a, TRUE)
RecordEducation ==
  \E a \in EducationArgs : HandleFunctionCall("record_education", a, TRUE)
RecordMedicalConditions ==
  \E a \in MedicalArgs : HandleFunctionCall("record_medical_conditions", a, TRUE)
RecordMedications ==
  \E a \in MedicationsArgs : HandleFunctionCall("record_medications", a, TRUE)
RecordFunctionalLimitations ==
  \E a \in FunctionalArgs : HandleFunctionCall("record_functional_limitations", a, TRUE)
RecordWorkHistory ==
  \E a \in WorkHistoryArgs : HandleFunctionCall("record_work_history", a, TRUE)
RecordApplicationStatus ==
  \E a \in ApplicationArgs : HandleFunctionCall("record_application_status", a, TRUE)
RecordSmsConsent ==
  \E a \in SmsConsentArgs : HandleFunctionCall("record_sms_consent", a, TRUE)
RecordAssessment ==
  \E a \in AssessmentArgs : HandleFunctionCall("record_assessment", a, TRUE)
FlagUrgent ==
  \E a \in FlagUrgentArgs : HandleFunctionCall("flag_urgent", a, TRUE)
RequestHumanTransfer ==
  \E a \in TransferArgs : HandleFunctionCall("request_human_transfer", a, TRUE)
EndCall ==
  \E a \in EndCallArgs : HandleFunctionCall("end_call", a, TRUE)
RecordCallbackRequest ==
  \E a \in CallbackArgs, saveOk \in BOOLEAN :
    HandleFunctionCall("record_callback_request", a, saveOk)
UnknownFunction ==
  \E n \in UnknownNames : HandleFunctionCall(n, [x |-> Undef], TRUE)

----------------------------------------------------------------------------
(* Spec: one call session after 'start', handling function calls *)

ConfigOf(smsEnabled, skinny, fallback) ==
  [ sms |-> [enabled |-> smsEnabled],
    skinnyApp |-> [enabled |-> skinny, fallbackToLocal |-> fallback],
    tzWest |-> FALSE ]

Queries ==
  [ callerPhone : {Undef, Def("+15550100")}, callerCity : {Def("Tampa")},
    callerState : {Def("FL")} ]

InitCommon ==
  /\ data = InitData(callerInfo)
  /\ flags = InitFlags
  /\ outcome = InitOutcome
  /\ scoring = Undef
  /\ log = <<>>
  /\ ret = [none |-> TRUE]
  /\ smsCalls = <<>>
  /\ smsInFlight = 0
  /\ nCalls = 0
  /\ fin = <<>>
  /\ effects = InitEffects

Init ==
  /\ \E e \in BOOLEAN : config = ConfigOf(e, FALSE, TRUE)
  /\ \E q \in Queries : callerInfo = CallerInfoOf(q)
  /\ bridge = StartedBridge
  /\ client = OpenClient
  /\ InitCommon

Next ==
  \/ RecordDemographics
  \/ RecordEducation
  \/ RecordMedicalConditions
  \/ RecordMedications
  \/ RecordFunctionalLimitations
  \/ RecordWorkHistory
  \/ RecordApplicationStatus
  \/ RecordSmsConsent
  \/ RecordAssessment
  \/ FlagUrgent
  \/ RequestHumanTransfer
  \/ EndCall
  \/ RecordCallbackRequest
  \/ UnknownFunction
  \/ SmsSettles

Spec == Init /\ [][Next]_vars

----------------------------------------------------------------------------
(* SpecBridge: one carrier connection from before 'start' to teardown, with *)
(* the finalize() invocations its 'stop' events start                       *)

BridgeCalls ==
  { [ name |-> "record_demographics",
      args |-> [ first_name |-> Def("Ann"), last_name |-> Undef,
                 date_of_birth |-> Def(Dob1970), phone |-> Undef,
                 email |-> Def("ann@example.org"), city |-> Undef,
                 state |-> Undef ] ],
    [ name |-> "end_call",
      args |-> [ outcome |-> "completed", send_sms |-> Def(FALSE) ] ] }

BackendFunctionCall ==
  \E c \in BridgeCalls : HandleFunctionCall(c.name, c.args, TRUE)

InitBridgeSpec ==
  /\ \E sk \in BOOLEAN, fb \in BOOLEAN :
       /\ sk \/ fb
       /\ config = ConfigOf(TRUE, sk, fb)
  /\ callerInfo = CallerInfoOf([ callerPhone |-> Def("+15550100"),
                                 callerCity |-> Def("Tampa"),
                                 callerState |-> Def("FL") ])
  /\ bridge = InitBridge
  /\ client = InitClient
  /\ InitCommon

NextBridge ==
  \/ TwilioStart
  \/ ClientOpens
  \/ BackendFunctionCall
  \/ TwilioStop
  \/ FinalizeSubmitSettles
  \/ FinalizeSaveSettles
  \/ FinalizeStaffEmailSettles
  \/ FinalizeClientEmailSettles
  \/ TwilioError
  \/ TwilioClose
  \/ ClientSocketClosed
  \/ BackendCloses
  \/ ClientSocketError

SpecBridge == InitBridgeSpec /\ [][NextBridge]_vars

----------------------------------------------------------------------------
(* SpecOmit: a started call whose backend sends recording calls that omit  *)
(* fields of their arguments, and the finalize() of its session            *)

OmittingCalls ==
  { [ name |-> "record_medical_conditions",
      args |-> [ conditions |-> Undef, severity |-> Def("severe"),
                 duration_months |-> Undef, treatments |-> Undef,
                 hospitalizations |-> Undef ] ],
    [ name |-> "record_medical_conditions",
      args |-> [ conditions |-> Def(<<"depression">>), severity |-> Undef,
                 duration_months |-> Undef, treatments |-> Undef,
                 hospitalizations |-> Undef ] ],
    [ name |-> "record_medications",
      args |-> [ medications |-> Undef, side_effects |-> Undef ] ],
    [ name |-> "record_education",
      args |-> [ education_level |-> Undef, details |-> Undef ] ] }

BackendCallOmitting ==
  \E c \in OmittingCalls : HandleFunctionCall(c.name, c.args, TRUE)

InitOmit ==
  /\ \E sk \in BOOLEAN, fb \in BOOLEAN : config = ConfigOf(TRUE, sk, fb)
  /\ callerInfo = CallerInfoOf([ callerPhone |-> Def("+15550100"),
                                 callerCity |-> Def("Tampa"),
                                 callerState |-> Def("FL") ])
  /\ bridge = StartedBridge
  /\ client = OpenClient
  /\ InitCommon

NextOmit ==
  \/ BackendCallOmitting
  \/ TwilioStop
  \/ FinalizeSubmitSettles
  \/ FinalizeSaveSettles
  \/ FinalizeStaffEmailSettles
  \/ TwilioClose
  \/ ClientSocketClosed

SpecOmit == InitOmit /\ [][NextOmit]_vars

----------------------------------------------------------------------------
(* SpecFinalize: a started call whose caller gives an email address, and   *)
(* the finalize() invocations of its session with every outcome of the     *)
(* remote attempt, the save and the two emails                             *)

EmailCall ==
  [ name |-> "record_demographics",
    args |-> [ first_name |-> Def("Ann"), last_name |-> Undef,
               date_of_birth |-> Undef, phone |-> Undef,
               email |-> Def("ann@example.org"), city |-> Undef,
               state |-> Undef ] ]

BackendGivesEmail == HandleFunctionCall(EmailCall.name, EmailCall.args, TRUE)

InitFinalize ==
  /\ \E sk \in BOOLEAN, fb \in BOOLEAN : config = ConfigOf(TRUE, sk, fb)
  /\ callerInfo = CallerInfoOf([ callerPhone |-> Def("+15550100"),
                                 callerCity |-> Def("Tampa"),
                                 callerState |-> Def("FL") ])
  /\ bridge = StartedBridge
  /\ client = OpenClient
  /\ InitCommon

NextFinalize ==
  \/ BackendGivesEmail
  \/ TwilioStop
  \/ FinalizeSubmitSettles
  \/ FinalizeSaveSettles
  \/ FinalizeStaffEmailSettles
  \/ FinalizeClientEmailSettles

SpecFinalize == InitFinalize /\ [][NextFinalize]_vars

----------------------------------------------------------------------------
(* SpecClient: one connected OpenAIRealtimeClient and the events it handles *)

InitClientSpec ==
  /\ config = ConfigOf(TRUE, FALSE, TRUE)
  /\ callerInfo = CallerInfoOf([ callerPhone |-> Def("+15550100"),
                                 callerCity |-> Def("Tampa"),
                                 callerState |-> Def("FL") ])
  /\ bridge = StartedBridge
  /\ client = ConnectingClient
  /\ InitCommon

NextClient ==
  \/ ClientOpens
  \/ SessionUpdated
  \/ ResponseCreated
  \/ ResponseDone
  \/ SpeechStarted
  \/ UserTranscript
  \/ FunctionCallDone
  \/ FunctionCallbackSettles
  \/ TwilioMedia
  \/ BackendCloses
  \/ SilenceTimerFires
  \/ MarkCallEnding
  \/ ClientClose
  \/ ClientSocketClosed

SpecClient == InitClientSpec /\ [][NextClient]_vars

----------------------------------------------------------------------------
(* SpecRelay: one connection of the carrier from before 'start', with the  *)
(* audio relayed in both directions and the messages neither handler can   *)
(* parse                                                                   *)

StartSids == {Undef, Def(""), Def("MZ1")}

TwilioStartArrives == \E sid \in StartSids : TwilioStartWith(sid)

InitRelay ==
  /\ config = ConfigOf(FALSE, FALSE, TRUE)
  /\ callerInfo = CallerInfoOf([ callerPhone |-> Def("+15550100"),
                                 callerCity |-> Def("Tampa"),
                                 callerState |-> Def("FL") ])
  /\ bridge = InitBridge
  /\ client = InitClient
  /\ InitCommon

NextRelay ==
  \/ TwilioStartArrives
  \/ ClientOpens
  \/ ClientSocketError
  \/ BackendCloses
  \/ AudioDelta
  \/ TwilioMediaEvent
  \/ BackendErrorEvent
  \/ BackendMalformed
  \/ TwilioMalformed
  \/ MalformedFunctionCall
  \/ TwilioClose
  \/ ClientSocketClosed

SpecRelay == InitRelay /\ [][NextRelay]_vars

----------------------------------------------------------------------------
(* SpecScore: ScoringEngine.calculateScore applied to IntakeData records    *)
(* drawn from the records a session can hold, from the one the constructor  *)
(* builds to one with every list and limitation filled in, and to the ones  *)
(* a recording call without its list leaves behind                          *)

ScoreCaller == CallerInfoOf([ callerPhone |-> Def("+15550100"),
                              callerCity |-> Def("Tampa"),
                              callerState |-> Def("FL") ])

\* the record a new IntakeSession holds (intakeSession.ts 130-173)
EmptyRecord == InitData(ScoreCaller)

\* the other fields of a record with everything reported
FilledIn(d) ==
  [ d EXCEPT
      !.medical.severity = Def("disabling"),
      !.medical.treatments = Def(<<"surgery", "physical therapy">>),
      !.medical.hospitalizations = Def(3),
      !.medical.medications =
         Def(<<"Oxycodone", "Morphine", "Fentanyl", "Seroquel", "Lithium",
               "Humira", "Gabapentin", "Lyrica", "Zoloft", "Aspirin">>),
      !.medical.sideEffects = Def(<<"drowsiness", "nausea", "dizziness">>),
      !.functionalLimitations =
         [ sittingMinutes |-> Def(15), standingMinutes |-> Def(10),
           walkingBlocks |-> Def(1), liftingPounds |-> Def(5),
           concentrationIssues |-> Def(TRUE), memoryIssues |-> Def(TRUE),
           socialDifficulties |-> Def(TRUE), expectedAbsences |-> Def(4),
           needsToLieDown |-> Def(TRUE),
           assistiveDevices |-> Def(<<"cane", "walker">>) ],
      !.workHistory.jobs = Def(<<[title |-> "Warehouse worker", years |-> 32]>>),
      !.workHistory.totalWorkYears = Def(32) ]

RecordWith(age, level, conditions, heaviestLifting, full) ==
  Let([ EmptyRecord EXCEPT !.demographics.age = age,
                           !.education.level = level,
                           !.medical.conditions = conditions,
                           !.workHistory.heaviestLifting = heaviestLifting ],
      LAMBDA d : IF full THEN FilledIn(d) ELSE d)

\* the record age=30, education=college, no conditions, nothing else
Age30College == RecordWith(Def(30), Def("college"), Def(<<>>), Undef, FALSE)

ScoreAges == {Undef, Def(30), Def(48), Def(52), Def(56), Def(62)}
ScoreLevels == {Undef, Def("college"), Def("limited"), Def("illiterate")}
ScoreConditions ==
  { Undef, Def(<<>>), Def(<<"Depression">>),
    Def(<<"ALS", "Lung cancer", "Schizophrenia", "COPD">>) }
ScoreLifting == {Undef, Def("sedentary"), Def("very_heavy")}

ScoreRecords ==
  { RecordWith(age, level, conditions, heaviestLifting, full) :
      age \in ScoreAges, level \in ScoreLevels, conditions \in ScoreConditions,
      heaviestLifting \in ScoreLifting, full \in BOOLEAN }

\* scoringEngine.calculateScore(this.data) (529-534, 776): the result, or
\* the TypeError of a list that is undefined
ScoreRecord ==
  /\ ~IsDef(scoring) /\ ret = [none |-> TRUE]
  /\ IF calculateScoreThrows(data)
     THEN /\ ret' = [threw |-> TRUE]
          /\ scoring' = scoring
     ELSE /\ \E s \in {calculateScore(data)} : scoring' = Def(s)
          /\ ret' = ret
  /\ UNCHANGED <<config, callerInfo, data, flags, outcome, log, smsCalls,
                 smsInFlight, nCalls, fin, effects, bridge, client>>

\* the same record with the age 56 in place of 48, scored again; ret keeps
\* the total the record had at 48
RescoreAt56 ==
  /\ IsDef(scoring) /\ data.demographics.age = Def(48)
  /\ ret = [none |-> TRUE]
  /\ data' = [data EXCEPT !.demographics.age = Def(56)]
  /\ \E s \in {calculateScore(data')} : scoring' = Def(s)
  /\ ret' = [at48 |-> Val(scoring).totalScore]
  /\ UNCHANGED <<config, callerInfo, flags, outcome, log, smsCalls,
                 smsInFlight, nCalls, fin, effects, bridge, client>>

InitScore ==
  /\ config = ConfigOf(FALSE, FALSE, TRUE)
  /\ callerInfo = ScoreCaller
  /\ data \in ScoreRecords
  /\ flags = InitFlags
  /\ outcome = InitOutcome
  /\ scoring = Undef
  /\ log = <<>>
  /\ ret = [none |-> TRUE]
  /\ smsCalls = <<>>
  /\ smsInFlight = 0
  /\ nCalls = 0
  /\ fin = <<>>
  /\ effects = InitEffects
  /\ bridge = StartedBridge
  /\ client = OpenClient

NextScore ==
  \/ ScoreRecord
  \/ RescoreAt56

SpecScore == InitScore /\ [][NextScore]_vars

----------------------------------------------------------------------------
(* SpecGrid: a session whose record holds an age and an education level;   *)
(* the lifting capacity is reported by record_functional_limitations and   *)
(* the record is scored by record_assessment.                              *)

GridAges == {Undef, Def(48), Def(52), Def(56), Def(62)}
GridLevels == {Undef, Def("college"), Def("limited"), Def("illiterate")}
GridLifting == {Undef, Def(0), Def(5), Def(10), Def(15), Def(20), Def(25)}

GridRecords ==
  { [ EmptyRecord EXCEPT !.demographics.age = age, !.education.level = level ] :
      age \in GridAges, level \in GridLevels }

LiftingArgs(lifting_pounds) ==
  [ sitting_minutes |-> Undef, standing_minutes |-> Undef,
    walking_blocks |-> Undef, lifting_pounds |-> lifting_pounds,
    concentration_issues |-> Undef, memory_issues |-> Undef,
    social_difficulties |-> Undef, expected_absences |-> Undef,
    needs_to_lie_down |-> Undef, assistive_devices |-> Undef ]

LiftingReported ==
  /\ nCalls = 0
  /\ \E lifting_pounds \in GridLifting :
       HandleFunctionCall("record_functional_limitations",
                          LiftingArgs(lifting_pounds), TRUE)

AssessmentRecorded ==
  /\ ~IsDef(scoring)
  /\ RecordAssessment

InitGrid ==
  /\ config = ConfigOf(FALSE, FALSE, TRUE)
  /\ callerInfo = ScoreCaller
  /\ data \in GridRecords
  /\ flags = InitFlags
  /\ outcome = InitOutcome
  /\ scoring = Undef
  /\ log = <<>>
  /\ ret = [none |-> TRUE]
  /\ smsCalls = <<>>
  /\ smsInFlight = 0
  /\ nCalls = 0
  /\ fin = <<>>
  /\ effects = InitEffects
  /\ bridge = StartedBridge
  /\ client = OpenClient

NextGrid ==
  \/ LiftingReported
  \/ AssessmentRecorded

SpecGrid == InitGrid /\ [][NextGrid]_vars

----------------------------------------------------------------------------
(* SpecEndCall: a connected client and its session; the backend calls      *)
(* end_call, which the bridge's onFunctionCall (part_002 135-141) hands to *)
(* the session, and goes on delivering events while the silence timer runs *)

InitEndCall ==
  /\ config = ConfigOf(FALSE, FALSE, TRUE)
  /\ callerInfo = ScoreCaller
  /\ bridge = StartedBridge
  /\ client = OpenClient
  /\ InitCommon

NextEndCall ==
  \/ EndCall
  \/ ResponseDone
  \/ SpeechStarted
  \/ UserTranscript
  \/ SilenceTimerFires

SpecEndCall == InitEndCall /\ [][NextEndCall]_vars

----------------------------------------------------------------------------
(* SpecRescore: a started call under local scoring; the backend records    *)
(* facts and calls record_assessment in any order, then the carrier sends  *)
(* 'stop' and finalize() runs                                              *)

InitRescore ==
  /\ config = ConfigOf(FALSE, FALSE, TRUE)
  /\ callerInfo = ScoreCaller
  /\ bridge = StartedBridge
  /\ client = OpenClient
  /\ InitCommon

NextRescore ==
  \/ RecordAssessment
  \/ RecordEducation
  \/ RecordMedicalConditions
  \/ TwilioStop
  \/ FinalizeSaveSettles
  \/ FinalizeStaffEmailSettles

SpecRescore == InitRescore /\ [][NextRescore]_vars

----------------------------------------------------------------------------
(* SpecCallback: a started call whose first function call is a             *)
(* record_callback_request that succeeds; the backend then gives the       *)
(* caller's email address or ends the call as the prompt tells it to       *)
(* (intakePrompts.ts 88: end_call with outcome "callback_requested"), and  *)
(* the carrier sends 'stop'                                                *)

CallbackRequested ==
  /\ nCalls = 0
  /\ \E a \in CallbackArgs : HandleFunctionCall("record_callback_request", a, TRUE)

\* the outcome values of the end_call schema (intakePrompts.ts 487-490)
\* used here, and the value recordCallbackRequest itself sets
EndCallOutcomes == {"completed", "callback_requested", "callback_request"}

EndCallAfterCallback ==
  /\ nCalls >= 1
  /\ \E o \in EndCallOutcomes :
       HandleFunctionCall("end_call", [outcome |-> o, send_sms |-> Undef], TRUE)

EmailAfterCallback ==
  /\ nCalls >= 1
  /\ BackendGivesEmail

StopAfterCallback ==
  /\ nCalls >= 1
  /\ TwilioStop

InitCallback ==
  /\ \E sk \in BOOLEAN : config = ConfigOf(FALSE, sk, TRUE)
  /\ callerInfo = ScoreCaller
  /\ bridge = StartedBridge
  /\ client = OpenClient
  /\ InitCommon

NextCallback ==
  \/ CallbackRequested
  \/ EndCallAfterCallback
  \/ EmailAfterCallback
  \/ StopAfterCallback
  \/ FinalizeSubmitSettles
  \/ FinalizeSaveSettles
  \/ FinalizeStaffEmailSettles
  \/ FinalizeClientEmailSettles

SpecCallback == InitCallback /\ [][NextCallback]_vars

----------------------------------------------------------------------------
(* SpecRecord: a started call in which the backend makes the recording     *)
(* calls, in any order and any number of times                             *)

InitRecord ==
  /\ config = ConfigOf(FALSE, FALSE, TRUE)
  /\ callerInfo = ScoreCaller
  /\ bridge = StartedBridge
  /\ client = OpenClient
  /\ InitCommon

NextRecord ==
  \/ RecordEducation
  \/ RecordMedicalConditions
  \/ RecordMedications
  \/ RecordFunctionalLimitations
  \/ RecordWorkHistory
  \/ RecordApplicationStatus
  \/ RecordSmsConsent
  \/ FlagUrgent

SpecRecord == InitRecord /\ [][NextRecord]_vars

----------------------------------------------------------------------------
(* SpecAge: record_demographics with dates of birth around the birthday in *)
(* a call session, on a server whose local time zone is UTC or east of it  *)
(* and on one west of it.  date_of_birth is 'YYYY-MM-DD' (intakePrompts.ts *)
(* 194-197), which new Date() reads as midnight UTC; getFullYear, getMonth *)
(* and getDate then give the local calendar date (LocalDate).              *)

BirthdayYears == {17, 18, 49, 50, 54, 55, 59, 60, 64, 65}

\* the day before, the day of, and the day after `today minus n years`
DobsAround(n) ==
  { [y |-> Today.y - n, m |-> Today.m, d |-> Today.d + k] : k \in {-1, 0, 1} }

BirthdayDobs == UNION { DobsAround(n) : n \in BirthdayYears }

BirthDateRecorded ==
  \E dob \in BirthdayDobs :
    HandleFunctionCall("record_demographics",
                       [ first_name |-> Def("Ann"), last_name |-> Def("Lee"),
                         date_of_birth |-> Def(dob), phone |-> Undef,
                         email |-> Undef, city |-> Undef, state |-> Undef ],
                       TRUE)

InitAge ==
  /\ \E west \in BOOLEAN :
       config = [ConfigOf(FALSE, FALSE, TRUE) EXCEPT !.tzWest = west]
  /\ callerInfo = ScoreCaller
  /\ bridge = StartedBridge
  /\ client = OpenClient
  /\ InitCommon

NextAge == BirthDateRecorded

SpecAge == InitAge /\ [][NextAge]_vars

----------------------------------------------------------------------------
(* SpecApplication: record_application_status with denial dates on both    *)
(* sides of the 45th day and every status, in a session where flag_urgent  *)
(* may have set the urgent flag before                                      *)

StatusArgs ==
  [ has_applied : {Def(TRUE)},
    status : {Undef, Def("denied_initial"), Def("waiting"), Def("hearing_scheduled")},
    denial_date : {Undef, Def(TodayDay - 10), Def(TodayDay - 44),
                   Def(TodayDay - 45), Def(TodayDay - 50)},
    hearing_date : {Undef} ]

ApplicationStatusRecorded ==
  \E args \in StatusArgs : HandleFunctionCall("record_application_status", args, TRUE)

InitApplication ==
  /\ config = ConfigOf(FALSE, FALSE, TRUE)
  /\ callerInfo = ScoreCaller
  /\ bridge = StartedBridge
  /\ client = OpenClient
  /\ InitCommon

NextApplication ==
  \/ ApplicationStatusRecorded
  \/ FlagUrgent

SpecApplication == InitApplication /\ [][NextApplication]_vars

----------------------------------------------------------------------------
(* SpecTranscript: the assistant's transcript events of one connection.    *)
(* The backend sends the deltas of a segment in order and then its 'done', *)
(* or abandons the segment (a cancelled response) and starts the next one. *)
(* A delta is [seg, n]: the n-th delta of segment seg.                     *)

\* the deltas the client has received so far, delivered or not
DeltasSeen ==
  { client.currentTranscript[i] : i \in 1..Len(client.currentTranscript) }
  \cup UNION { { data.transcript[i].text[k] : k \in 1..Len(data.transcript[i].text) } :
                 i \in 1..Len(data.transcript) }

\* the segments whose 'done' the client has received
SegmentsDone ==
  { data.transcript[i].text[Len(data.transcript[i].text)].seg :
      i \in 1..Len(data.transcript) }

LastSegment == Max(0, CHOOSE m \in {0} \cup {d.seg : d \in DeltasSeen} :
                        \A d \in DeltasSeen : d.seg <= m)

\* handleMessage, case 'response.audio_transcript.delta' with a non-empty
\* delta (225-231)
appendTranscriptDelta(c, delta) ==
  [c EXCEPT !.currentTranscript = Append(@, delta)]

\* the bridge's onTranscript (part_002 129-134) -> addTranscript (184-190)
addTranscript(d, role, text) ==
  [d EXCEPT !.transcript = Append(@, [role |-> role, text |-> text])]

TranscriptDeltaArrives(seg) ==
  /\ Delivers(client) /\ client.events < MaxEvents
  /\ seg >= LastSegment /\ seg >= 1 /\ seg \notin SegmentsDone
  /\ \E n \in {Cardinality({d \in DeltasSeen : d.seg = seg}) + 1} :
       client' = [appendTranscriptDelta(client, [seg |-> seg, n |-> n])
                    EXCEPT !.events = client.events + 1]
  /\ othersUnchangedByClient

TranscriptDelta == \E seg \in 1..MaxSegments : TranscriptDeltaArrives(seg)

\* handleMessage, case 'response.audio_transcript.done' (233-238), sent by
\* the backend for the segment whose deltas it sent last
TranscriptDone ==
  /\ Delivers(client) /\ client.events < MaxEvents
  /\ LastSegment >= 1 /\ LastSegment \notin SegmentsDone
  /\ client' = [client EXCEPT !.events = @ + 1,
                              !.currentTranscript =
                                 IF client.currentTranscript # <<>> THEN <<>> ELSE @]
  /\ data' = IF client.currentTranscript # <<>> /\ bridge.intakeSession
             THEN addTranscript(data, "assistant", client.currentTranscript)
             ELSE data
  /\ UNCHANGED <<config, callerInfo, flags, outcome, scoring, log, ret,
                 smsCalls, smsInFlight, nCalls, fin, effects, bridge>>

InitTranscript ==
  /\ config = ConfigOf(FALSE, FALSE, TRUE)
  /\ callerInfo = ScoreCaller
  /\ bridge = StartedBridge
  /\ client = OpenClient
  /\ InitCommon

NextTranscript ==
  \/ TranscriptDelta
  \/ TranscriptDone

SpecTranscript == InitTranscript /\ [][NextTranscript]_vars

----------------------------------------------------------------------------
(* Properties                                                              *)

\* C1: a finalize() started on a session whose earlier finalize() already
\* completed calls no collaborator and leaves the cached scoring as it is:
\* in the step that starts it, the submit/save/email counters and the
\* scoring do not change.
C1_SecondFinalizeHasNoEffect ==
  [][ ( /\ Len(fin') = Len(fin) + 1
        /\ \E i \in 1..Len(fin) : fin[i].pc = "done" )
      => (effects' = effects /\ scoring' = scoring) ]_vars

\* C2: on one media-stream connection finalize() is started at most once.
C2_FinalizeStartedAtMostOnce == Len(fin) <= 1

\* C3: once finalize() has been invoked, no handleFunctionCall changes the
\* IntakeRecord, the flags or the outcome.
C3_NoMutationAfterFinalizeInvoked ==
  [][ (Len(fin) > 0 /\ nCalls' = nCalls + 1)
      => UNCHANGED <<data, flags, outcome>> ]_vars

\* C4: at every end_call the confirmation SMS is handed to the SMS service
\* if and only if the recorded consent is affirmative, a destination phone
\* number is known and the SMS feature flag is enabled.
C4_SmsSentIffConsentPhoneFlag ==
  [][ \A a \in EndCallArgs :
        HandleFunctionCall("end_call", a, TRUE)
        => ( (Len(smsCalls') = Len(smsCalls) + 1)
             <=> ( /\ TruthyBool(data.smsConsent.consentGiven)
                   /\ TruthyStr(data.demographics.phone)
                   /\ data.demographics.phone # Def("unknown")
                   /\ config.sms.enabled ) ) ]_vars

\* C5: an end_call that asks for the SMS and withholds it writes a log
\* entry that names the reason and is not an error entry.
C5_WithheldSmsLogsReason ==
  [][ \A a \in EndCallArgs :
        ( /\ HandleFunctionCall("end_call", a, TRUE)
          /\ TruthyBool(a.send_sms)
          /\ smsCalls' = smsCalls )
        => \E k \in 1..Len(log') :
             log'[k].reason # "" /\ log'[k].level # "error" ]_vars

\* C6: the re-prompt counter never exceeds MAX_SILENCE_PROMPTS, at most
\* MAX_SILENCE_PROMPTS re-prompts reach the backend between two caller
\* utterances, and no silence timer is pending while the counter is at the cap.
C6_SilencePromptCap ==
  /\ client.silencePromptCount <= MAX_SILENCE_PROMPTS
  /\ client.promptsSinceSpeech <= MAX_SILENCE_PROMPTS
  /\ client.silencePromptCount = MAX_SILENCE_PROMPTS => ~client.timerPending

\* the cap was reached and a later response.done was handled
C6_Witness ==
  /\ client.silencePromptCount = MAX_SILENCE_PROMPTS
  /\ client.promptsSinceSpeech = MAX_SILENCE_PROMPTS
  /\ client.events >= MAX_SILENCE_PROMPTS + 1
  /\ ~client.timerPending

\* C7: after markCallEnding() no step sends a silence re-prompt to the
\* backend and no step arms a silence timer.
C7_NoRepromptAfterCallEnding ==
  [][ client.callEnding
      => ( /\ client'.promptsSent = client.promptsSent
           /\ client'.timerPending => client.timerPending
           /\ client'.silenceTimeout => client.silenceTimeout ) ]_vars

\* the call was marked ending after a re-prompt had been sent, and backend
\* events were handled up to the bound
C7_Witness ==
  /\ client.callEnding
  /\ client.promptsSent >= 1
  /\ client.events = MaxEvents
  /\ ~client.timerPending

\* C8: a function call with an unknown name returns the structured error,
\* does not throw, and leaves data, flags, outcome and scoring unchanged.
C8_UnknownFunctionChangesNothing ==
  [][ UnknownFunction
      => ( /\ \E n \in UnknownNames : ret' = [error |-> "Unknown function: " \o n]
           /\ UNCHANGED sessionVars ) ]_vars

\* an unknown function was called on a session that holds a scoring
C8_Witness ==
  /\ ret = [error |-> "Unknown function: record_pet"]
  /\ IsDef(scoring)
  /\ IsDef(data.demographics.firstName)

\* C9: each of the flags urgent, crisisMentioned and transferRequested,
\* once true, stays true.
C9_FlagsMonotone ==
  [][ /\ flags.urgent => flags'.urgent
      /\ flags.crisisMentioned => flags'.crisisMentioned
      /\ flags.transferRequested => flags'.transferRequested ]_vars

\* C10: if demographics.age is present then demographics.dateOfBirth is
\* present and the age is the one derived from it.
C10_AgeDerivedFromDateOfBirth ==
  IsDef(data.demographics.age)
  => ( /\ IsDef(data.demographics.dateOfBirth)
       /\ Val(data.demographics.age)
            = AgeFromDob(LocalDate(Val(data.demographics.dateOfBirth)), Today) )

\* C11: with remote scoring enabled a finalize() call makes one
\* submitAssessment attempt and never another; when the attempt fails, the
\* invocation goes on with the local Scoring Engine's score of the record if
\* the fallback flag is set, and rejects if it is not.
C11_SingleAttemptThenFallbackOrPropagate ==
  [][ /\ effects'.submit =
           IF Len(fin') > Len(fin) /\ skinnyAppEnabled /\ outcome # "callback_request"
           THEN effects.submit + 1 ELSE effects.submit
      /\ \A i \in 1..Len(fin') :
           ( /\ "submit" \in fin'[i].failed
             /\ (i > Len(fin) \/ "submit" \notin fin[i].failed) )
           => IF config.skinnyApp.fallbackToLocal
              THEN /\ fin'[i].pc = "save"
                   /\ fin'[i].scoring = Def(calculateScore(data))
              ELSE fin'[i].pc = "rejected" ]_vars

\* C12: when db.saveIntake fails during finalize(), the invocation is never
\* rejected: it goes on to the staff notification exactly as after a
\* successful save (or returns at once for a callback request), and when it
\* returns, it returns the complete IntakeResult built before the save.
C12_SaveFailureNotPropagated ==
  [][ \A i \in 1..Len(fin) :
        "save" \in fin'[i].failed =>
          /\ fin'[i].pc \in {"staff", "client", "done"}
          /\ (fin[i].pc = "save") =>
                IF outcome # "callback_request"
                THEN /\ fin'[i].pc = "staff"
                     /\ "staff" \in fin'[i].attempted
                     /\ effects'.staffEmail = effects.staffEmail + 1
                ELSE fin'[i].pc = "done"
          /\ (fin[i].pc # "done" /\ fin'[i].pc = "done") =>
                /\ IsDef(fin[i].scoring)
                /\ fin'[i].returned =
                     Def([ data |-> data, scoring |-> fin[i].scoring,
                           flags |-> flags, outcome |-> fin[i].outcome ]) ]_vars

\* a finalize() whose save failed attempted the staff email and returned
C12_Witness ==
  \E i \in 1..Len(fin) :
    /\ "save" \in fin[i].failed
    /\ "staff" \in fin[i].attempted
    /\ fin[i].pc = "done"
    /\ IsDef(fin[i].returned)

\* C13: whether the staff email succeeded or failed, the caller's
\* confirmation is attempted exactly when the record has an email address;
\* whether the confirmation succeeded or failed, finalize() returns; neither
\* failure rejects finalize().
C13_EmailsAttemptedIndependently ==
  [][ \A i \in 1..Len(fin) :
        /\ (fin[i].pc = "staff" /\ fin'[i].pc # "staff") =>
              IF TruthyStr(data.demographics.email)
              THEN /\ fin'[i].pc = "client"
                   /\ "client" \in fin'[i].attempted
                   /\ effects'.clientEmail = effects.clientEmail + 1
              ELSE fin'[i].pc = "done"
        /\ (fin[i].pc = "client" /\ fin'[i].pc # "client") =>
              /\ fin'[i].pc = "done"
              /\ "staff" \in fin'[i].attempted
        /\ (fin'[i].failed \cap {"staff", "client"} # {}) =>
              fin'[i].pc # "rejected" ]_vars

\* the staff email failed, the confirmation was still sent, and finalize()
\* returned
C13_Witness ==
  \E i \in 1..Len(fin) :
    /\ "staff" \in fin[i].failed
    /\ "client" \in fin[i].attempted
    /\ "client" \notin fin[i].failed
    /\ fin[i].pc = "done"

\* C14: after a 'stop' event the Speech-AI client is closed by the 'stop'
\* handler only once finalize() has settled, and it is closed when
\* finalize() resolves and when finalize() rejects.
C14_ClientClosedAfterFinalizeSettles ==
  [][ /\ \A i \in 1..Len(fin') :
           ( /\ fin'[i].pc \in {"done", "rejected"}
             /\ (i > Len(fin) \/ fin[i].pc \notin {"done", "rejected"})
             /\ bridge.openaiClient )
           => ~client'.ws
      /\ (client.ws /\ ~client'.ws /\ bridge'.twilioWs = bridge.twilioWs)
           => \E i \in 1..Len(fin') :
                /\ fin'[i].pc \in {"done", "rejected"}
                /\ (i > Len(fin) \/ fin[i].pc \notin {"done", "rejected"}) ]_vars

\* C15: once 'start' was processed, a call whose carrier socket has closed
\* has had finalize() invoked for its session (after the close no 'stop' can
\* arrive, so an invocation that has not happened by then never happens).
C15_FinalizeInvokedWhenCallEnds ==
  (bridge.intakeSession /\ bridge.twilioWs = "CLOSED") => Len(fin) >= 1

\* C16: the step in which the carrier socket closes closes the Speech-AI
\* client, and the step in which the Speech-AI socket closes or fails
\* without the bridge having closed it closes the carrier socket.
C16_NoHalfOpenSession ==
  [][ /\ (bridge.twilioWs # "CLOSED" /\ bridge'.twilioWs = "CLOSED"
            /\ bridge.openaiClient)
           => ~client'.ws
      /\ (client.ws /\ client.readyState # "CLOSED"
            /\ client'.readyState = "CLOSED")
           => bridge'.twilioWs \in {"CLOSING", "CLOSED"} ]_vars

\* C17: when input_audio_buffer.speech_started arrives while a backend
\* response is in progress and the socket is open, the client sends
\* response.cancel and the bridge sends the carrier a 'clear' frame carrying
\* the captured stream id.
C17_BargeInCancelsAndClears ==
  [][ (SpeechStarted /\ client.responseInProgress /\ CanSend(client)) =>
        /\ client'.out = cancelResponse(client).out
        /\ bridge' = clearTwilioAudio(bridge) ]_vars

\* C18 as claimed: the first message of a connection is session.update, and
\* no conversation.item.create or response.create is sent before
\* session.updated was received.
C18_ConfigFirstNoContentBeforeAck ==
  /\ client.first \in {"", "session.update"}
  /\ (\E k \in 1..Len(client.out) :
        client.out[k].type \in {"conversation.item.create", "response.create"})
     => client.acked

\* C18: the first message of a connection is session.update, and the
\* opening greeting is sent only when session.updated has been received.
C18_ConfigFirstGreetingAfterAck ==
  /\ client.first \in {"", "session.update"}
  /\ (\E k \in 1..Len(client.out) : client.out[k] = GreetingItem) => client.acked

\* session.update went first and the greeting was sent on the acknowledgment
C18_Witness ==
  /\ client.first = "session.update"
  /\ client.acked
  /\ client.out = <<GreetingItem, ResponseCreateAudio>>

\* C19 as claimed: every function-call event received while the socket is
\* open is answered by one function_call_output with its call_id followed
\* by one response.create, an error object when parsing or the callback
\* failed, and the handler leaves the connection as it was.
C19_OneOutputThenContinue ==
  [][ /\ \A id \in CallIds, parseOk \in BOOLEAN, cb \in {"resolves", "throws"} :
           (FunctionCallArrives(id, parseOk, cb) /\ CanSend(client)) =>
             /\ client'.out =
                  << FunctionCallOutput(id, IF parseOk /\ cb = "resolves"
                                            THEN CallbackResult
                                            ELSE FunctionFailedOutput),
                     ResponseCreate >>
             /\ client'.readyState = client.readyState
      /\ \A id \in CallIds, ok \in BOOLEAN :
           ( /\ FunctionCallSettles(id, ok)
             /\ \E p \in client.pending : p.call_id = id /\ p.whileOpen ) =>
             /\ client'.out =
                  << FunctionCallOutput(id, IF ok THEN CallbackResult
                                            ELSE FunctionFailedOutput),
                     ResponseCreate >>
             /\ client'.readyState = client.readyState ]_vars

\* C19: once parsing failed or the callback settled, the client sends, if
\* its socket is open at that moment, one function_call_output with the
\* event's call_id followed by one response.create (an error object when
\* parsing or the callback failed) and sends nothing if the socket is no
\* longer open; the handler leaves the connection as it was.
C19_OneOutputThenContinueWhileOpen ==
  [][ /\ \A id \in CallIds, parseOk \in BOOLEAN, cb \in {"resolves", "throws"} :
           FunctionCallArrives(id, parseOk, cb) =>
             /\ client'.out =
                  IF CanSend(client)
                  THEN << FunctionCallOutput(id, IF parseOk /\ cb = "resolves"
                                                 THEN CallbackResult
                                                 ELSE FunctionFailedOutput),
                          ResponseCreate >>
                  ELSE <<>>
             /\ client'.readyState = client.readyState
      /\ \A id \in CallIds, ok \in BOOLEAN :
           (FunctionCallSettles(id, ok) /\ CanSend(client)) =>
             /\ client'.out =
                  << FunctionCallOutput(id, IF ok THEN CallbackResult
                                            ELSE FunctionFailedOutput),
                     ResponseCreate >>
             /\ client'.readyState = client.readyState
      /\ \A id \in CallIds, ok \in BOOLEAN :
           (FunctionCallSettles(id, ok) /\ ~CanSend(client)) =>
             /\ client'.out = <<>>
             /\ client'.readyState = client.readyState ]_vars

\* a callback that was waited for failed, and the error object and the
\* continuation request went out on the open socket
C19_Witness ==
  /\ client.out = <<FunctionCallOutput("call_1", FunctionFailedOutput), ResponseCreate>>
  /\ client.readyState = "OPEN"
  /\ client.pending = {}
  /\ client.events >= 2

\* C20: whatever fields the arguments of the recording operations omit, no
\* operation throws, calculateScore returns a result for the record, and no
\* finalize() under local scoring rejects.
C20_OmittedFieldsNeverFail ==
  /\ ret # [threw |-> TRUE]
  /\ ~calculateScoreThrows(data)
  /\ ~skinnyAppEnabled => \A i \in 1..Len(fin) : fin[i].pc # "rejected"

\* C21: the bridge puts no frame on the carrier's socket while the stream id
\* is unknown, and a chunk that was dropped is never delivered later: the
\* frames sent change only in a step that delivers an audio chunk while the
\* stream id is known, by exactly one media frame that holds that chunk and
\* the stream id captured at 'start'; every frame sent carries that id.
C21_NoFrameWithoutStreamSid ==
  [][ /\ bridge'.sent # bridge.sent =>
           /\ IsDef(bridge.streamSid)
           /\ client'.audioChunkCount = client.audioChunkCount + 1
           /\ bridge'.sent = Append(bridge.sent,
                                    [ event |-> "media",
                                      streamSid |-> Val(bridge.streamSid),
                                      payload |-> client'.audioChunkCount ])
      /\ \A i \in 1..Len(bridge'.sent) :
           /\ bridge'.sent[i].event \in {"media", "clear", "mark"}
           /\ IsDef(bridge'.streamSid)
           /\ bridge'.sent[i].streamSid = Val(bridge'.streamSid) ]_vars

\* audio chunks arrived on an open carrier socket after a 'start' without a
\* stream id and nothing was sent
C21_Witness ==
  /\ bridge.intakeSession /\ ~IsDef(bridge.streamSid)
  /\ bridge.twilioWs = "OPEN"
  /\ client.audioChunkCount >= 2
  /\ bridge.sent = <<>>

\* C22: a carrier 'media' message that is handled while the client's
\* connection is not open (no client yet, connect() still awaited, connect()
\* failed, or the connection closed) sends nothing to the backend: the
\* client, what it sent included, is as it was.
C22_NoCallerAudioUnlessOpen ==
  [][ (bridge'.media = bridge.media + 1 /\ client.readyState # "OPEN")
        => client' = client ]_vars

\* a 'media' message was handled and the client, created by 'start', is
\* still connecting and has sent nothing
C22_Witness ==
  /\ bridge.openaiClient /\ bridge.media >= 1
  /\ client.readyState = "CONNECTING"
  /\ client.out = <<>> /\ client.first = ""

\* C23: when the backend's 'error' event is handled, the client calls the
\* onError callback the bridge gave it, and it sends nothing to the backend.
C23_BackendErrorForwarded ==
  [][ BackendErrorEvent =>
        /\ bridge'.onError = bridge.onError + 1
        /\ client'.out = client.out /\ client'.first = client.first ]_vars

\* C24: a message that a handler cannot parse, and an exception raised while
\* one event is handled, stay inside the handler.  A malformed backend
\* message and a malformed carrier message change nothing but the record
\* that they were caught; a function call whose arguments cannot be parsed
\* is answered with the failure output and leaves the connection, the
\* silence timer and the pending calls as they were; a connect() that is
\* rejected inside the 'start' handler leaves the carrier's connection, the
\* stream id and the session as they were.  In each case the sockets that
\* deliver the later events are as open as before.
C24_HandlerFaultsAreContained ==
  [][ /\ (BackendMalformed \/ client'.caught # client.caught) =>
           /\ client' = [client EXCEPT !.caught = @ + 1, !.events = @ + 1]
           /\ Delivers(client')
           /\ bridge' = bridge
           /\ UNCHANGED sessionVars
      /\ (TwilioMalformed \/ bridge'.caught # bridge.caught) =>
           /\ bridge' = [bridge EXCEPT !.caught = @ + 1]
           /\ bridge'.twilioWs = "OPEN"
           /\ client' = client
           /\ UNCHANGED sessionVars
      /\ MalformedFunctionCall =>
           /\ \E c \in {[client EXCEPT !.out = client'.out, !.first = client'.first,
                                       !.events = client'.events]} : client' = c
           /\ Delivers(client')
           /\ CanSend(client) =>
                \E call_id \in CallIds :
                  client'.out = << FunctionCallOutput(call_id, FunctionFailedOutput),
                                   ResponseCreate >>
           /\ bridge' = bridge
           /\ UNCHANGED sessionVars
      /\ (client.readyState = "CONNECTING" /\ client'.readyState = "CLOSED") =>
           /\ bridge'.onError = bridge.onError + 1
           /\ bridge' = [bridge EXCEPT !.onError = @ + 1]
           /\ UNCHANGED sessionVars ]_vars

\* both handlers caught a malformed message, both connections are open and
\* audio that arrived from the backend was relayed to the carrier
C24_Witness ==
  /\ client.caught >= 1 /\ bridge.caught >= 1
  /\ client.readyState = "OPEN" /\ bridge.twilioWs = "OPEN"
  /\ client.audioChunkCount >= 1 /\ Len(bridge.sent) >= 1

\* C25: calculateScore returns, for every record, a totalScore that is an
\* integer between 0 and 100: no scoring of a record throws, and every
\* score returned is in 0..100.
C25_TotalScoreWithinBounds ==
  /\ ret # [threw |-> TRUE]
  /\ IsDef(scoring) => Val(scoring).totalScore \in 0..100

\* C26: calculateScore on the empty record and on the record age=30,
\* education=college with nothing else returns without throwing a score in
\* the lowest tier (0..9, not_recommended), and for the age-30 record the
\* concerns hold the narrative about the caller's age.
C26_LowEndLandsInLowestTier ==
  data \in {EmptyRecord, Age30College} =>
    /\ ret # [threw |-> TRUE]
    /\ IsDef(scoring) =>
         /\ Val(scoring).totalScore \in 0..9
         /\ Val(scoring).recommendation = "not_recommended"
         /\ data = Age30College =>
              \E i \in 1..Len(Val(scoring).caseConcerns) :
                Val(scoring).caseConcerns[i] =
                  "Under 50 (must meet or equal a listing, or have severe limitations)"

\* the age-30 college record was scored
C26_Witness ==
  /\ data = Age30College
  /\ IsDef(scoring)
  /\ Len(Val(scoring).caseConcerns) = 2

\* C27: for every record that calculateScore scores, the same record with
\* the age 56 in place of 48 has a totalScore that is not lower, whether the
\* total accumulated before the age multiplier is negative or not.
C27_Age48To56NeverLowers ==
  "at48" \in DOMAIN ret => Val(scoring).totalScore >= ret.at48

\* a record with college education and a sedentary work history, whose
\* total before the age multiplier is negative, was scored at 48 and at 56
C27_Witness ==
  /\ "at48" \in DOMAIN ret
  /\ data.education.level = Def("college")
  /\ data.workHistory.heaviestLifting = Def("sedentary")
  /\ scoreParts(data).raw < 0
  /\ scoreParts([data EXCEPT !.demographics.age = Def(48)]).raw < 0

\* C28: the age record_demographics derives is the number of whole years
\* from the date of birth to today: for the date of birth one day before
\* `today minus n years` it is n, for the one a day after it is n - 1.
C28_AgeIsWholeYearsSinceBirth ==
  (IsDef(data.demographics.dateOfBirth) /\ IsDef(data.demographics.age)) =>
    \E dob \in {Val(data.demographics.dateOfBirth)}, age \in data.demographics.age :
      /\ age = AgeFromDob(dob, Today)
      /\ (dob.m = Today.m /\ dob.d = Today.d - 1) => age = Today.y - dob.y
      /\ (dob.m = Today.m /\ dob.d = Today.d + 1) => age = Today.y - dob.y - 1

\* C29: after record_application_status the urgent flag is true if the
\* recorded denial date is 45 or more days before today or the recorded
\* status is hearing_scheduled, and it is what it was before the call if
\* neither holds.
C29_UrgentAfterApplicationStatus ==
  [][ ApplicationStatusRecorded =>
        \E app \in {data'.application} :
          IF \/ IsDef(app.denialDate) /\ TodayDay - Val(app.denialDate) >= 45
             \/ app.status = Def("hearing_scheduled")
          THEN flags'.urgent
          ELSE flags'.urgent = flags.urgent ]_vars

\* a denial dated exactly 45 days ago was recorded and raised the flag
C29_Witness ==
  /\ data.application.denialDate = Def(TodayDay - 45)
  /\ data.application.status = Def("denied_initial")
  /\ flags.urgent
  /\ flags.urgentReason = Def("Appeal deadline approaching")
  /\ ret = [recorded |-> TRUE, warning |-> "appeal_deadline"]

\* C30 as claimed: when input_audio_buffer.speech_started arrives while a
\* silence timer is armed, the timer is cancelled and can no longer fire,
\* and the re-prompt counter is 0 afterwards, so that the next timer armed
\* runs for the first-arming duration.
C30_SpeechStartCancelsAndResets ==
  [][ (SpeechStarted /\ client.timerPending) =>
        /\ ~client'.silenceTimeout /\ ~client'.timerPending
        /\ client'.silencePromptCount = 0
        /\ startSilenceTimeout(client').silenceTimeout =>
             startSilenceTimeout(client').timeoutMs = FIRST_SILENCE_TIMEOUT_MS ]_vars

\* C30, amended: speech_started while a silence timer is armed cancels the
\* timer, which can no longer fire, and leaves the re-prompt counter as it
\* is; the counter is reset to 0 by the caller's completed, non-empty
\* transcript, and a timer armed after that runs for the first-arming
\* duration.
C30_SpeechStartCancelsTranscriptResets ==
  [][ /\ (SpeechStarted /\ client.timerPending) =>
           /\ ~client'.silenceTimeout /\ ~client'.timerPending
           /\ client'.silencePromptCount = client.silencePromptCount
      /\ UserTranscript =>
           /\ client'.silencePromptCount = 0
           /\ startSilenceTimeout(client').silenceTimeout =>
                startSilenceTimeout(client').timeoutMs = FIRST_SILENCE_TIMEOUT_MS ]_vars

\* after one re-prompt a timer was armed again and the caller's speech
\* start cancelled it: no timer is held, the counter is still 1
C30_Witness ==
  /\ client.silencePromptCount = 1
  /\ ~client.silenceTimeout /\ ~client.timerPending
  /\ ~client.callEnding
  /\ client.ws /\ client.readyState = "OPEN"

\* C31: the transcript callback is not invoked on a delta event, and every
\* assistant transcript delivered is the concatenation, in arrival order, of
\* the deltas of one segment: all its deltas belong to the same segment and
\* are numbered 1, 2, ... without a gap.
C31_TranscriptIsOneSegment ==
  /\ [][ TranscriptDelta => data'.transcript = data.transcript ]_vars
  /\ [](\A i \in 1..Len(data.transcript) :
          \A k \in 1..Len(data.transcript[i].text) :
            /\ data.transcript[i].text[k].seg = data.transcript[i].text[1].seg
            /\ data.transcript[i].text[k].n = k)

\* the slices of the record other than those named are unchanged by the step
OnlySlices(S) == \A k \in (DOMAIN data) \ S : data'[k] = data[k]

\* the fields of the medical slice other than those named are unchanged
OnlyMedical(S) ==
  \A k \in (DOMAIN data.medical) \ S : data'.medical[k] = data.medical[k]

\* the step is the session handling the function call `name` with some
\* arguments of Args
Handled(name, Args) ==
  /\ nCalls' = nCalls + 1
  /\ \E a \in Args :
       \E res \in {handleFunctionCall(data, flags, outcome, scoring, name, a, TRUE)} :
         data' = res.data /\ flags' = res.flags /\ outcome' = res.outcome

\* C32: each recording operation changes only its own slice of the record:
\* record_education, record_functional_limitations, record_work_history and
\* record_sms_consent change one slice and no flag; record_medical_conditions
\* leaves medications and side effects as they were, record_medications
\* leaves the other five medical fields as they were;
\* record_application_status changes the application slice, the urgent flag
\* and the urgent reason only.  None of them changes the outcome.
C32_RecordingChangesOwnSliceOnly ==
  [][ /\ Handled("record_education", EducationArgs) =>
           OnlySlices({"education"}) /\ flags' = flags /\ outcome' = outcome
      /\ Handled("record_functional_limitations", FunctionalArgs) =>
           OnlySlices({"functionalLimitations"}) /\ flags' = flags /\ outcome' = outcome
      /\ Handled("record_work_history", WorkHistoryArgs) =>
           OnlySlices({"workHistory"}) /\ flags' = flags /\ outcome' = outcome
      /\ Handled("record_sms_consent", SmsConsentArgs) =>
           OnlySlices({"smsConsent"}) /\ flags' = flags /\ outcome' = outcome
      /\ Handled("record_medical_conditions", MedicalArgs) =>
           /\ OnlySlices({"medical"}) /\ flags' = flags /\ outcome' = outcome
           /\ OnlyMedical({"conditions", "severity", "durationMonths",
                           "treatments", "hospitalizations"})
      /\ Handled("record_medications", MedicationsArgs) =>
           /\ OnlySlices({"medical"}) /\ flags' = flags /\ outcome' = outcome
           /\ OnlyMedical({"medications", "sideEffects"})
      /\ Handled("record_application_status", ApplicationArgs) =>
           /\ OnlySlices({"application"}) /\ outcome' = outcome
           /\ flags'.crisisMentioned = flags.crisisMentioned
           /\ flags'.transferRequested = flags.transferRequested
    ]_vars

\* the medications and the conditions have both been recorded, by two calls
C32_Witness ==
  /\ Val(data.medical.medications) # <<>>
  /\ Val(data.medical.conditions) # <<>>
  /\ ret = [recorded |-> TRUE]
  /\ nCalls = 2

\* the labels of a scoring result
LabelsOf(sc) ==
  << sc.recommendation, sc.viabilityRating, sc.approvalLikelihood,
     sc.callbackTimeframe >>

\* C33: with the default thresholds the tier and its three labels are
\* determined by the final score alone, in five bands that rise with the
\* score: 70-100 highly_recommended, 45-69 recommended, 25-44
\* consider_caution, 10-24 weak_case, 0-9 not_recommended.
C33_TierIsMonotoneInScore ==
  IsDef(scoring) =>
    \E sc \in scoring :
      /\ sc.totalScore \in 70..100 =>
           LabelsOf(sc) = <<"highly_recommended", "Very High", "80%+", "24 hours">>
      /\ sc.totalScore \in 45..69 =>
           LabelsOf(sc) = <<"recommended", "High", "60-80%", "48 hours">>
      /\ sc.totalScore \in 25..44 =>
           LabelsOf(sc) = <<"consider_caution", "Medium", "40-60%", "3-5 business days">>
      /\ sc.totalScore \in 10..24 =>
           LabelsOf(sc) = <<"weak_case", "Low", "20-40%", "5-7 business days">>
      /\ sc.totalScore \in 0..9 =>
           LabelsOf(sc) = <<"not_recommended", "Very Low", "<20%", "as time permits">>

\* a record was scored just above the lower end of the 'recommended' band
C33_Witness ==
  /\ IsDef(scoring)
  /\ Val(scoring).totalScore \in 45..49
  /\ Val(scoring).recommendation = "recommended"

\* the grid-rule narratives among the strengths of a scoring result
GridStrengthsIn(sc) ==
  SelectSeq(sc.caseStrengths,
            LAMBDA s : s \in {GridStrengthOf(1), GridStrengthOf(2), GridStrengthOf(3)})

\* the rules whose condition holds for the record
GridRulesHolding(d) ==
  LET age == IF TruthyNum(d.demographics.age) THEN Val(d.demographics.age) ELSE 0
      limited == d.education.level \in {Def("limited"), Def("marginal"), Def("illiterate")}
      lifting == LiftingOr50(d.functionalLimitations)
  IN {r \in {1} : age >= 60 /\ lifting <= 20}
     \cup {r \in {2} : age >= 55 /\ limited /\ lifting <= 20}
     \cup {r \in {3} : age >= 50 /\ limited /\ lifting <= 10}

\* C34: a scored record got at most one grid-rule bonus and at most one
\* grid-rule narrative; when the conditions of several rules hold, the bonus
\* and the narrative are those of the rule of highest priority (60+ first,
\* then 55+, then 50+), and there is neither when no rule holds.
C34_AtMostOneGridRule ==
  IsDef(scoring) =>
    \E sc \in scoring, holding \in {GridRulesHolding(data)},
       gridBonus \in {scoreParts(data).gridBonus} :
      /\ Len(GridStrengthsIn(sc)) <= 1
      /\ gridBonus \in {0, 25, 30, 35}
      /\ holding = {} => gridBonus = 0 /\ GridStrengthsIn(sc) = <<>>
      /\ holding # {} =>
           \E first \in holding :
             /\ \A r \in holding : first <= r
             /\ gridBonus = GridBonusOf(first)
             /\ GridStrengthsIn(sc) = <<GridStrengthOf(first)>>

\* a record for which the conditions of all three rules hold was scored
C34_Witness ==
  /\ IsDef(scoring)
  /\ GridRulesHolding(data) = {1, 2, 3}
  /\ GridStrengthsIn(Val(scoring)) = <<GridStrengthOf(1)>>

\* C39: the lifting condition of the grid rules agrees with that of the
\* lifting bonus for every recorded value: a scored record with age 60 or
\* more and a recorded lifting capacity of at most 20 lb, 0 lb included, got
\* the 60+ grid-rule bonus and narrative; and the result of
\* record_functional_limitations for a capacity of 0 lb names the sedentary
\* lifting capacity among the critical limitations, as for 5 or 10 lb.
C39_LiftingConditionsAgree ==
  /\ ( /\ IsDef(scoring)
       /\ DefGe(data.demographics.age, 60)
       /\ DefLe(data.functionalLimitations.liftingPounds, 20) ) =>
        /\ scoreParts(data).gridBonus = GridBonusOf(1)
        /\ GridStrengthsIn(Val(scoring)) = <<GridStrengthOf(1)>>
  /\ ( /\ ~IsDef(scoring) /\ nCalls = 1
       /\ DefLe(data.functionalLimitations.liftingPounds, 10) ) =>
        /\ "guidance" \in DOMAIN ret
        /\ \E i \in 1..Len(ret.guidance) :
             ret.guidance[i] = "sedentary lifting capacity"

\* C35: once end_call has been handled, no silence re-prompt is sent to the
\* backend for the rest of the call, whether a response.done arrives
\* afterwards or a silence timer was armed before.
C35_NoRepromptAfterEndCall ==
  [][ outcome = "completed" => client'.promptsSent = client.promptsSent ]_vars

\* C37: whenever a confirmation SMS is sent, its destination is the phone
\* number stored with the recorded consent, for every order of
\* record_demographics and record_sms_consent.
C37_SmsGoesToConsentedNumber ==
  [][ Len(smsCalls') > Len(smsCalls) =>
        Def(smsCalls'[Len(smsCalls')]) = data.smsConsent.phoneNumber ]_vars

\* C36: under local scoring the scoring of the IntakeResult that finalize()
\* builds is calculateScore of the record in that result, for every
\* sequence of operations before it, record_assessment followed by further
\* facts included.
C36_ResultScoreIsScoreOfRecord ==
  [][ \A i \in 1..Len(fin') :
        ( /\ ~skinnyAppEnabled
          /\ fin'[i].pc = "save"
          /\ (i > Len(fin) \/ fin[i].pc # "save") ) =>
            fin'[i].scoring = Def(calculateScore(data')) ]_vars

\* C38: in a call whose record_callback_request succeeded, finalize() does
\* not submit the record for remote scoring and sends neither the staff
\* intake email nor the caller's confirmation, whatever was handled after
\* the callback request, end_call with any outcome included.
C38_CallbackSkipsScoringAndEmails ==
  [][ nCalls >= 1 =>
        /\ effects'.submit = effects.submit
        /\ effects'.staffEmail = effects.staffEmail
        /\ effects'.clientEmail = effects.clientEmail ]_vars

\* C40: at most one silence timer is pending at any time: a pending timer is
\* the one the client's handle refers to; and once close() has been called
\* on a connection that had opened, no silence timer is pending, also after
\* a response.done that the closing connection still delivers.
C40_NoTimerAfterClose ==
  /\ client.timerPending => client.silenceTimeout
  /\ ( /\ client.first # ""
       /\ ~client.ws /\ client.readyState \in {"CLOSING", "CLOSED"} ) =>
        ~client.timerPending

====
